---- MODULE Spec2Model ----
(***************************************************************************)
(* A model of rightteaminc/core:                                           *)
(*   core/gcloud/datastore.py  the key codec (resource ids)                *)
(*   core/models.py            Property, its subclasses, and Model         *)
(*                                                                         *)
(* The module holds several specifications over one set of variables:      *)
(*   SpecCodec   get_resource_id_from_key / get_key_from_resource_id       *)
(*   Spec        one entity: construct, set, get, delete, assign, read     *)
(*   SpecPut     temporal fields and _prepare_for_put                      *)
(*   SpecDecl    field constructors and class fix-up, in any order         *)
(*   SpecFilter  structured fields: sub-fields and equality filters        *)
(* Each specification leaves the variables of the others unchanged.        *)
(***************************************************************************)
EXTENDS Integers, Sequences, FiniteSets, TLC

VARIABLES
    key,            \* codec: the ndb.Key given, as its pairs() sequence
    resource_id,    \* codec: the token get_resource_id_from_key returned
    decoded,        \* codec: what get_key_from_resource_id returned or raised
    cstage,         \* codec: "key" -> "encoded" -> "decoded"
    has_repeated,   \* class -> cls._has_repeated
    properties,     \* class -> cls._properties ({storage name: field}), or NoMap
    prop_name,      \* class -> field -> descriptor._name (NoName while None)
    prop_code_name, \* class -> field -> descriptor._code_name
    alive,          \* entity -> the instance has been constructed
    values,         \* entity -> entity._values
    attrs,          \* entity -> instance attributes assigned over a field
    last,           \* the last call: [op, f, arg]
    ret,            \* what the last call returned or raised: [err, v]
    lastset,        \* entity -> field -> the value last set successfully, or deleted
    now,            \* the UTC clock read by _now()
    ctor,           \* the last descriptor construction: [args, err, prop]
    subprops,       \* class -> structured field -> the sub-fields it has cached
    query,          \* the last _comparison call: [f, op, value, order]
    result,         \* the filter it returned, or the fault: [err, kind, nodes]
    dt_value,       \* the datetime given to _db_set_value
    int64value,     \* v: the integer _db_set_value has set, if any
    dt_read,        \* what _db_get_value returned
    conv_type,      \* conversion: the type of the field
    user_value,     \* conversion: the value given
    base_value,     \* conversion: [err, v] of the _to_base_type composition
    back_value,     \* conversion: [err, v] of the _from_base_type composition
    conv_step,      \* conversion: "value" -> "valid" -> "base" -> "back"
    shallow_list,   \* conversion: the methods _call_shallow_validation applied
    fix_pc,         \* thread -> where it is in Model.__init__
    fix_todo,       \* thread -> the fields its _fix_up_properties loop has to visit
    registered,     \* a _fix_up_properties pass of the class has completed
    seen,           \* what a reader of cls._properties saw: [registered, map]
    fm_cache,       \* cls._find_methods_cache: 0 (no attribute) or a dictionary
    fm_dicts,       \* the dictionaries made so far: key -> 0 (no entry) or a list
    fm_lists,       \* the method lists made so far, in their present order
    fm_call,        \* thread -> where it is in _find_methods, and its locals
    fm_ret,         \* thread -> the names and the list of its last return
    set_prop,       \* one field's descriptor, as its constructor left it
    set_values,     \* the _values of the one entity that field is set on
    set_ids         \* which list object is stored, which was returned last

codecVars == <<key, resource_id, decoded, cstage>>

classVars == <<has_repeated, properties, prop_name, prop_code_name>>

entityVars == <<alive, values, attrs, lastset>>

callVars == <<last, ret>>

filterVars == <<subprops, query, result>>

dbVars == <<dt_value, int64value, dt_read>>

convVars == <<conv_type, user_value, base_value, back_value, conv_step, shallow_list>>

raceVars == <<fix_pc, fix_todo, registered, seen>>

\* the state the entity, codec and filter operations leave alone
fmVars == <<fm_cache, fm_dicts, fm_lists, fm_call, fm_ret>>

setVars == <<set_prop, set_values, set_ids>>

restVars == <<dbVars, convVars, raceVars, fmVars, setVars>>

restButDb == <<convVars, raceVars, fmVars, setVars>>
restButConv == <<dbVars, raceVars, fmVars, setVars>>
restButRace == <<dbVars, convVars, fmVars, setVars>>
restButFm == <<dbVars, convVars, raceVars, setVars>>
restButSet == <<dbVars, convVars, raceVars, fmVars>>

vars == <<codecVars, classVars, entityVars, callVars, now, ctor, filterVars, restVars>>

(***************************************************************************)
(* Bounds of the model.                                                    *)
(***************************************************************************)
\* longest key path (number of (kind, id) pairs) the codec is run on
MaxPairs == 2

(***************************************************************************)
(*                 core/gcloud/datastore.py : the key codec                *)
(*                                                                         *)
(* Text is a sequence of character codes (ASCII).  An identifier is a      *)
(* record: isint tells an integer (n) from a text (s).                     *)
(***************************************************************************)
SEPARATOR == 30
INTPREFIX == 31
\* '=' of a base64 text; the 64 characters of the alphabet are 0..63
PAD == 64

IntId(n) == [isint |-> TRUE, n |-> n, s |-> <<>>]
TextId(s) == [isint |-> FALSE, n |-> 0, s |-> s]

\* unicode(n) for an integer: its decimal digits, '-' first when negative
RECURSIVE Digits(_)
Digits(n) ==
    IF n < 10 THEN <<48 + n>> ELSE Digits(n \div 10) \o <<48 + (n % 10)>>

unicode_of_int(n) ==
    IF n < 0 THEN <<45>> \o Digits(0 - n) ELSE Digits(n)

\* int(text): Python accepts an optional sign followed by decimal digits
\* and raises ValueError for anything else.
IsDigit(c) == c >= 48 /\ c <= 57

AllDigits(s) == Len(s) > 0 /\ \A i \in 1..Len(s) : IsDigit(s[i])

RECURSIVE DigitsValue(_)
DigitsValue(s) ==
    IF Len(s) = 0 THEN 0
    ELSE 10 * DigitsValue(SubSeq(s, 1, Len(s) - 1)) + (s[Len(s)] - 48)

int_of_text(s) ==
    IF Len(s) > 0 /\ s[1] \in {43, 45} /\ AllDigits(Tail(s))
    THEN [err |-> "none",
          v |-> IF s[1] = 45 THEN 0 - DigitsValue(Tail(s)) ELSE DigitsValue(Tail(s))]
    ELSE IF AllDigits(s) THEN [err |-> "none", v |-> DigitsValue(s)]
    ELSE [err |-> "ValueError", v |-> 0]

\* SEPARATOR.join(list of texts)
RECURSIVE Join(_)
Join(parts) ==
    IF Len(parts) = 0 THEN <<>>
    ELSE IF Len(parts) = 1 THEN parts[1]
    ELSE parts[1] \o <<SEPARATOR>> \o Join(Tail(parts))

\* text.split(SEPARATOR): always at least one fragment, fragments may be empty
RECURSIVE Split(_)
Split(s) ==
    IF \A i \in 1..Len(s) : s[i] # SEPARATOR THEN <<s>>
    ELSE LET i == CHOOSE k \in 1..Len(s) :
                      s[k] = SEPARATOR /\ \A j \in 1..(k - 1) : s[j] # SEPARATOR
         IN  <<SubSeq(s, 1, i - 1)>> \o Split(SubSeq(s, i + 1, Len(s)))

\* base64.urlsafe_b64encode: three bytes become four 6-bit characters, the
\* last group is padded with '='
RECURSIVE b64encode(_)
b64encode(b) ==
    IF Len(b) = 0 THEN <<>>
    ELSE IF Len(b) = 1
    THEN <<b[1] \div 4, (b[1] % 4) * 16, PAD, PAD>>
    ELSE IF Len(b) = 2
    THEN <<b[1] \div 4, (b[1] % 4) * 16 + (b[2] \div 16), (b[2] % 16) * 4, PAD>>
    ELSE <<b[1] \div 4, (b[1] % 4) * 16 + (b[2] \div 16),
           (b[2] % 16) * 4 + (b[3] \div 64), b[3] % 64>>
         \o b64encode(SubSeq(b, 4, Len(b)))

\* base64.urlsafe_b64decode of whole groups of four characters; a group that
\* is not a legal (possibly padded, then last) group raises TypeError
\* ("Incorrect padding")
RECURSIVE b64decode(_)
b64decode(t) ==
    IF Len(t) = 0 THEN [err |-> "none", v |-> <<>>]
    ELSE IF Len(t) < 4 THEN [err |-> "TypeError", v |-> <<>>]
    ELSE LET a == t[1]
             b == t[2]
             c == t[3]
             d == t[4]
             final == Len(t) = 4
         IN  IF a = PAD \/ b = PAD THEN [err |-> "TypeError", v |-> <<>>]
             ELSE IF c = PAD
             THEN IF d = PAD /\ final
                  THEN [err |-> "none", v |-> <<a * 4 + (b \div 16)>>]
                  ELSE [err |-> "TypeError", v |-> <<>>]
             ELSE IF d = PAD
             THEN IF final
                  THEN [err |-> "none",
                        v |-> <<a * 4 + (b \div 16), (b % 16) * 16 + (c \div 4)>>]
                  ELSE [err |-> "TypeError", v |-> <<>>]
             ELSE LET rest == b64decode(SubSeq(t, 5, Len(t)))
                  IN  IF rest.err # "none" THEN rest
                      ELSE [err |-> "none",
                            v |-> <<a * 4 + (b \div 16), (b % 16) * 16 + (c \div 4),
                                    (c % 4) * 64 + d>> \o rest.v]

\* kind + SEPARATOR + key_or_id for one pair (lines 23-30)
pair_string(pair) ==
    LET kind == pair[1]
        key_or_id == IF pair[2].isint
                     THEN <<INTPREFIX>> \o unicode_of_int(pair[2].n)
                     ELSE pair[2].s
    IN  kind \o <<SEPARATOR>> \o key_or_id

get_resource_id_from_key(pairs) ==
    LET pair_strings == [i \in 1..Len(pairs) |-> pair_string(pairs[i])]
        buff == Join(pair_strings)
        encoded == b64encode(buff)
    IN  SelectSeq(encoded, LAMBDA ch : ch # PAD)

\* a fragment is kept as text whatever its first byte
decode_bit_astext(bit) ==
    IF Len(bit) = 0 THEN [err |-> "IndexError", v |-> TextId(<<>>)]
    ELSE [err |-> "none", v |-> TextId(bit)]

\* one fragment of the decoded text (lines 55-58)
decode_bit(bit) ==
    IF Len(bit) = 0 THEN [err |-> "IndexError", v |-> TextId(<<>>)]
    ELSE IF bit[1] = INTPREFIX
    THEN LET r == int_of_text(Tail(bit))
         IN  [err |-> r.err, v |-> IntId(r.v)]
    ELSE [err |-> "none", v |-> TextId(bit)]

\* ndb.Key(*key_pairs): the flat list alternates kind, id (an odd number of
\* positional arguments is a ValueError); a kind is a text
NoKey == <<>>

ndb_Key(flat) ==
    IF Len(flat) = 0 THEN [err |-> "TypeError", pairs |-> NoKey]
    ELSE IF Len(flat) % 2 # 0 THEN [err |-> "ValueError", pairs |-> NoKey]
    ELSE IF \E i \in 1..(Len(flat) \div 2) : flat[2 * i - 1].isint
    THEN [err |-> "TypeError", pairs |-> NoKey]
    ELSE [err |-> "none",
          pairs |-> [i \in 1..(Len(flat) \div 2) |->
                        <<flat[2 * i - 1].s, flat[2 * i]>>]]

get_key_from_resource_id(rid) ==
    LET modulo == Len(rid) % 4
        padded == IF modulo # 0
                  THEN rid \o [i \in 1..(4 - modulo) |-> PAD]
                  ELSE rid
        dec == b64decode(padded)
    IN  IF dec.err # "none" THEN [err |-> dec.err, pairs |-> NoKey]
        ELSE LET bits == Split(dec.v)
                 conv == [i \in 1..Len(bits) |-> decode_bit(bits[i])]
             IN  IF \E i \in 1..Len(conv) : conv[i].err # "none"
                 THEN LET f == CHOOSE i \in 1..Len(conv) :
                                  conv[i].err # "none"
                                  /\ \A j \in 1..(i - 1) : conv[j].err = "none"
                      IN  [err |-> conv[f].err, pairs |-> NoKey]
                 ELSE ndb_Key([i \in 1..Len(conv) |-> conv[i].v])

(***************************************************************************)
(* The keys the codec is run on: kinds and text identifiers are non-empty  *)
(* and hold neither SEPARATOR nor INTPREFIX; integer identifiers are the   *)
(* positive ids a datastore key carries.                                   *)
(***************************************************************************)
KindTexts == { <<80, 97, 114, 101, 110, 116>>,      \* "Parent"
               <<67, 104, 105, 108, 100>>,          \* "Child"
               <<55>> }                             \* "7"

IdTexts == { <<97, 98, 99>>,                        \* "abc"
             <<49, 50, 51>>,                        \* "123", all digits
             <<45, 55>>,                            \* "-7"
             <<29>>,                                \* chr(29), next to SEPARATOR
             <<32, 49>> }                           \* " 1", chr(32) next to INTPREFIX

IdInts == {7, 10, 123}

KeyIds == {TextId(s) : s \in IdTexts} \cup {IntId(n) : n \in IdInts}

KeyPairs == KindTexts \X KeyIds

KeyInputs == UNION {[1..n -> KeyPairs] : n \in 1..MaxPairs}

NoToken == <<>>

NotDecoded == [err |-> "pending", pairs |-> NoKey]


(***************************************************************************)
(*                      core/models.py : Python values                     *)
(*                                                                         *)
(* A value is None, one atom, or a list of atoms.  An atom is a text, an   *)
(* integer or a datetime / date / time; all atoms are records of the same  *)
(* shape so that any two can be compared.                                  *)
(***************************************************************************)
None == [k |-> "none", s |-> <<>>]
Atom(x) == [k |-> "atom", s |-> <<x>>]
List(q) == [k |-> "list", s |-> q]

Str(t) == [ty |-> "str", txt |-> t, day |-> 0, tod |-> 0]
IntAtom(t) == [ty |-> "int", txt |-> t, day |-> 0, tod |-> 0]
DateTime(d, t) == [ty |-> "datetime", txt |-> "", day |-> d, tod |-> t]
Date(d) == [ty |-> "date", txt |-> "", day |-> d, tod |-> 0]
Time(t) == [ty |-> "time", txt |-> "", day |-> 0, tod |-> t]

\* a str given by its bytes, a unicode given by its code points (Str is a
\* text whose content does not matter)
Bytes(b) == [ty |-> "bytes", txt |-> b, day |-> 0, tod |-> 0]
Unicode(u) == [ty |-> "unicode", txt |-> u, day |-> 0, tod |-> 0]
\* values json.dumps takes: an integer of one digit, a list or a tuple of such
JInt(n) == [ty |-> "jint", txt |-> <<n>>, day |-> 0, tod |-> 0]
JList(q) == [ty |-> "jlist", txt |-> q, day |-> 0, tod |-> 0]
JTuple(q) == [ty |-> "jtuple", txt |-> q, day |-> 0, tod |-> 0]

\* dictionaries are functions; d[k] = v, del d[k]
Put(d, k, v) == [n \in (DOMAIN d) \cup {k} |-> IF n = k THEN v ELSE d[n]]
Del(d, k) == [n \in (DOMAIN d) \ {k} |-> d[n]]
EmptyDict == <<>>

Ok(v) == [err |-> "none", v |-> v]
Raise(e) == [err |-> e, v |-> None]

(***************************************************************************)
(* Property.__init__ and the constructors of its subclasses.               *)
(* A descriptor is the record of its options; _name and _code_name, which  *)
(* _fix_up() assigns later, are kept in prop_name and prop_code_name.      *)
(***************************************************************************)
NoName == ""
NoClass == ""
NoChoices == [k |-> "none", s |-> {}]
Choices(S) == [k |-> "set", s |-> S]
BadChoices == [k |-> "bad", s |-> {}]

\* names that hold a period
DottedNames == {"a.b"}

TemporalTypes == {"DateTime", "Date", "Time"}

Args(type) ==
    [type |-> type, name |-> NoName, indexed |-> TRUE, repeated |-> FALSE,
     required |-> FALSE, default |-> None, choices |-> NoChoices,
     validator |-> "none", auto_now |-> FALSE, auto_now_add |-> FALSE,
     modelclass |-> NoClass]

NoProp == Args("")

Built(p) == [err |-> "none", prop |-> p]
Refused(e) == [err |-> e, prop |-> NoProp]

Property_init_lenient(args) ==
    IF args.name # NoName /\ args.name \in DottedNames THEN Refused("ValueError")
    ELSE IF args.repeated /\ (args.required /\ args.default # None)
    THEN Refused("ValueError")
    ELSE IF args.choices.k = "bad" THEN Refused("TypeError")
    ELSE IF args.validator = "notcallable" THEN Refused("TypeError")
    ELSE Built([args EXCEPT !.auto_now = FALSE, !.auto_now_add = FALSE,
                            !.modelclass = NoClass])

Property_init(args) ==
    IF args.name # NoName /\ args.name \in DottedNames THEN Refused("ValueError")
    ELSE IF args.repeated /\ (args.required \/ args.default # None)
    THEN Refused("ValueError")
    ELSE IF args.choices.k = "bad" THEN Refused("TypeError")
    ELSE IF args.validator = "notcallable" THEN Refused("TypeError")
    ELSE Built([args EXCEPT !.auto_now = FALSE, !.auto_now_add = FALSE,
                            !.modelclass = NoClass])

DateTimeProperty_init(args) ==
    LET r == Property_init(args)
    IN  IF r.err # "none" THEN r
        ELSE IF r.prop.repeated /\ args.auto_now THEN Refused("ValueError")
        ELSE IF r.prop.repeated /\ args.auto_now_add THEN Refused("ValueError")
        ELSE Built([r.prop EXCEPT !.auto_now = args.auto_now,
                                  !.auto_now_add = args.auto_now_add])

\* hasrep is modelclass._has_repeated as the constructor reads it
StructuredProperty_init(args, hasrep) ==
    LET r == Property_init(args)
    IN  IF r.err # "none" THEN r
        ELSE IF r.prop.repeated /\ hasrep THEN Refused("TypeError")
        ELSE Built([r.prop EXCEPT !.modelclass = args.modelclass])

\* the constructor the field's type has
new_property(args, hasrep) ==
    IF args.type \in TemporalTypes THEN DateTimeProperty_init(args)
    ELSE IF args.type = "Structured"
    THEN StructuredProperty_init(args, hasrep[args.modelclass])
    ELSE Property_init(args)

(***************************************************************************)
(* The classes of the program: the Property classes with their method      *)
(* resolution order and the methods each defines itself, and the Model     *)
(* subclasses with their declared fields.                                  *)
(***************************************************************************)
MRO ==
    [String     |-> <<"StringProperty", "TextProperty", "Property">>,
     DateTime   |-> <<"DateTimeProperty", "Property">>,
     Json       |-> <<"JsonProperty", "TextProperty", "Property">>,
     Date       |-> <<"DateProperty", "DateTimeProperty", "Property">>,
     Time       |-> <<"TimeProperty", "DateTimeProperty", "Property">>,
     Structured |-> <<"StructuredProperty", "_StructuredGetForDictMixin",
                      "Property">>,
     \* the hierarchy A -> B -> C -> Property of the docstring of
     \* _call_shallow_validation
     Chain      |-> <<"A", "B", "C", "Property">>]

Defines ==
    [Property                   |-> {},
     TextProperty               |-> {"_validate", "_to_base_type", "_from_base_type"},
     StringProperty             |-> {},
     JsonProperty               |-> {"_validate", "_to_base_type", "_from_base_type"},
     DateTimeProperty           |-> {"_validate"},
     DateProperty               |-> {"_validate", "_to_base_type", "_from_base_type"},
     TimeProperty               |-> {"_validate", "_to_base_type", "_from_base_type"},
     _StructuredGetForDictMixin |-> {},
     StructuredProperty         |-> {"_validate", "_has_value"},
     A                          |-> {"_validate"},
     B                          |-> {"_validate", "_to_base_type"},
     C                          |-> {"_validate", "_to_base_type"}]

\* prop.<name>(...) for a method name: the classes of the MRO are searched.
\* No class defines __getattr__ but StructuredProperty, whose __getattr__
\* raises AttributeError as well for a name that is no field of the nested
\* class (a field's name cannot start with an underscore).
has_method(type, name) ==
    \E i \in 1..Len(MRO[type]) : name \in Defines[MRO[type][i]]

method_fault(type, name) ==
    IF has_method(type, name) THEN "none" ELSE "AttributeError"

\* _find_methods(*names): for each class of the MRO, each name it defines
RECURSIVE ClassMethods(_, _)
ClassMethods(c, names) ==
    IF Len(names) = 0 THEN <<>>
    ELSE (IF names[1] \in Defines[c] THEN <<[cls |-> c, name |-> names[1]]>>
          ELSE <<>>)
         \o ClassMethods(c, Tail(names))

RECURSIVE MroMethods(_, _)
MroMethods(mro, names) ==
    IF Len(mro) = 0 THEN <<>>
    ELSE ClassMethods(mro[1], names) \o MroMethods(Tail(mro), names)

find_methods(type, names) == MroMethods(MRO[type], names)

\* the leading _validate methods of _find_methods('_validate', '_to_base_type')
RECURSIVE LeadingValidates(_)
LeadingValidates(methods) ==
    IF Len(methods) = 0 \/ methods[1].name # "_validate" THEN <<>>
    ELSE <<methods[1]>> \o LeadingValidates(Tail(methods))

\* every _validate method of the MRO, the loop never stopping
shallow_methods_all(type) ==
    SelectSeq(find_methods(type, <<"_validate", "_to_base_type">>),
              LAMBDA m : m.name = "_validate")

shallow_methods(type) ==
    LeadingValidates(find_methods(type, <<"_validate", "_to_base_type">>))

\* one class's _validate(value): what it returns (None for most) or raises
IsAtomOf(value, types) == value.k = "atom" /\ value.s[1].ty \in types

\* UTF-8 of code points below 2048, and back
RECURSIVE utf8_encode(_)
utf8_encode(u) ==
    IF Len(u) = 0 THEN <<>>
    ELSE (IF u[1] < 128 THEN <<u[1]>>
          ELSE <<192 + (u[1] \div 64), 128 + (u[1] % 64)>>)
         \o utf8_encode(Tail(u))

RECURSIVE utf8_valid(_)
utf8_valid(b) ==
    IF Len(b) = 0 THEN TRUE
    ELSE IF b[1] < 128 THEN utf8_valid(Tail(b))
    ELSE /\ b[1] >= 194 /\ b[1] <= 223
         /\ Len(b) >= 2
         /\ b[2] >= 128 /\ b[2] <= 191
         /\ utf8_valid(SubSeq(b, 3, Len(b)))

RECURSIVE utf8_decode(_)
utf8_decode(b) ==
    IF Len(b) = 0 THEN <<>>
    ELSE IF b[1] < 128 THEN <<b[1]>> \o utf8_decode(Tail(b))
    ELSE <<(b[1] - 192) * 64 + (b[2] - 128)>> \o utf8_decode(SubSeq(b, 3, Len(b)))

IsAscii(t) == \A i \in 1..Len(t) : t[i] < 128

\* basestring.decode('utf-8') succeeds: a unicode is first encoded as ASCII
text_decodes(x) ==
    IF x.ty = "bytes" THEN utf8_valid(x.txt)
    ELSE IF x.ty = "unicode" THEN IsAscii(x.txt)
    ELSE x.ty = "str"

validate_method(c, value) ==
    IF c = "TextProperty"
    THEN IF IsAtomOf(value, {"str", "bytes", "unicode"}) /\ text_decodes(value.s[1])
         THEN Ok(None) ELSE Raise("BadValueError")
    ELSE IF c = "JsonProperty" THEN Ok(None)
    \* A returns a value in place of "A", B accepts texts, C accepts nothing
    ELSE IF c = "A"
    THEN IF value = Atom(Str("A")) THEN Ok(Atom(Str("a"))) ELSE Ok(None)
    ELSE IF c = "B"
    THEN IF IsAtomOf(value, {"str"}) THEN Ok(None) ELSE Raise("BadValueError")
    ELSE IF c = "C" THEN Raise("BadValueError")
    ELSE IF c = "DateTimeProperty"
    THEN IF IsAtomOf(value, {"datetime"}) THEN Ok(None) ELSE Raise("BadValueError")
    ELSE IF c = "DateProperty"
    THEN IF IsAtomOf(value, {"date", "datetime"}) THEN Ok(None)
         ELSE Raise("BadValueError")
    ELSE IF c = "TimeProperty"
    THEN IF IsAtomOf(value, {"time"}) THEN Ok(None) ELSE Raise("BadValueError")
    ELSE Ok(None)

\* json.dumps of an integer, a list or a tuple: "1", "[1, 2]"
RECURSIVE json_items(_)
json_items(q) ==
    IF Len(q) = 0 THEN <<>>
    ELSE IF Len(q) = 1 THEN <<48 + q[1]>>
    ELSE <<48 + q[1], 44, 32>> \o json_items(Tail(q))

json_dumps(x) ==
    IF x.ty = "jint" THEN Ok(Atom(Bytes(<<48 + x.txt[1]>>)))
    ELSE IF x.ty \in {"jlist", "jtuple"}
    THEN Ok(Atom(Bytes(<<91>> \o json_items(x.txt) \o <<93>>)))
    ELSE Raise("TypeError")

\* json.loads of such a text, str or unicode
json_loads(x) ==
    IF x.ty \notin {"bytes", "unicode"} THEN Raise("TypeError")
    ELSE IF Len(x.txt) = 1 /\ IsDigit(x.txt[1]) THEN Ok(Atom(JInt(x.txt[1] - 48)))
    ELSE IF Len(x.txt) >= 2 /\ x.txt[1] = 91 /\ x.txt[Len(x.txt)] = 93
            /\ \A i \in 2..(Len(x.txt) - 1) :
                   IF i % 3 = 2 THEN IsDigit(x.txt[i])
                   ELSE IF i % 3 = 0 THEN x.txt[i] = 44 ELSE x.txt[i] = 32
    THEN Ok(Atom(JList([k \in 1..(Len(x.txt) \div 3) |-> x.txt[3 * k - 1] - 48])))
    ELSE Raise("ValueError")

\* one class's _to_base_type(value): None when it returns nothing
to_base_type_method(c, value) ==
    IF c = "TextProperty"
    THEN IF IsAtomOf(value, {"unicode"})
         THEN Ok(Atom(Bytes(utf8_encode(value.s[1].txt))))
         ELSE Ok(None)
    ELSE IF c = "JsonProperty"
    THEN IF value.k = "atom" THEN json_dumps(value.s[1]) ELSE Raise("TypeError")
    ELSE IF c = "DateProperty"
    THEN IF IsAtomOf(value, {"date", "datetime"})
         THEN Ok(Atom(DateTime(value.s[1].day, 0)))
         ELSE Raise("AssertionError")
    ELSE IF c = "TimeProperty"
    THEN IF IsAtomOf(value, {"time"})
         THEN Ok(Atom(DateTime(0, value.s[1].tod)))
         ELSE Raise("AssertionError")
    ELSE IF c \in {"B", "C"} THEN Ok(Atom(IntAtom("7")))
    ELSE Ok(None)

\* one class's _from_base_type(value)
from_base_type_method(c, value) ==
    IF c = "TextProperty"
    THEN IF IsAtomOf(value, {"bytes"}) /\ utf8_valid(value.s[1].txt)
         THEN Ok(Atom(Unicode(utf8_decode(value.s[1].txt))))
         ELSE IF IsAtomOf(value, {"str"})
         THEN Ok(Atom([value.s[1] EXCEPT !.ty = "unicode"]))
         ELSE Ok(None)
    ELSE IF c = "JsonProperty"
    THEN IF value.k = "atom" THEN json_loads(value.s[1]) ELSE Raise("TypeError")
    ELSE IF c = "DateProperty"
    THEN IF IsAtomOf(value, {"datetime"})
         THEN Ok(Atom(Date(value.s[1].day)))
         ELSE Raise("AssertionError")
    ELSE IF c = "TimeProperty"
    THEN IF IsAtomOf(value, {"datetime"})
         THEN Ok(Atom(Time(value.s[1].tod)))
         ELSE Raise("AssertionError")
    ELSE Ok(None)

\* method(self, value) for a method _find_methods has listed
call_method(m, value) ==
    IF m.name = "_validate" THEN validate_method(m.cls, value)
    ELSE IF m.name = "_to_base_type" THEN to_base_type_method(m.cls, value)
    ELSE from_base_type_method(m.cls, value)

\* _apply_list(methods)(value): a None result keeps the value
apply_list_step(methods, value, r) ==
    IF r.err # "none" THEN [err |-> r.err, rest |-> <<>>, v |-> None]
    ELSE [err |-> "none", rest |-> Tail(methods),
          v |-> IF r.v # None THEN r.v ELSE value]

RECURSIVE apply_list_from(_)
apply_list_from(st) ==
    IF st.err # "none" THEN Raise(st.err)
    ELSE IF Len(st.rest) = 0 THEN Ok(st.v)
    ELSE apply_list_from(apply_list_step(st.rest, st.v, call_method(st.rest[1], st.v)))

apply_list(methods, value) ==
    apply_list_from([err |-> "none", rest |-> methods, v |-> value])

call_shallow_validation(prop, value) ==
    apply_list(shallow_methods(prop.type), value)

\* the validators fields are declared with: validator(prop, value)
Lower(t) == IF t = "A" THEN "a" ELSE t

call_validator(name, value) ==
    IF name = "lower"
    THEN Ok(Atom([value.s[1] EXCEPT !.txt = Lower(value.s[1].txt)]))
    ELSE IF name = "refuse" THEN Raise("ValueError")
    ELSE Ok(None)

InChoices(prop, value) ==
    value.k = "atom" /\ value.s[1] \in prop.choices.s

\* _do_validate up to the choices: shallow validation, then the validator,
\* whose None result keeps the value
validate_before_choices(prop, value) ==
    LET sv == call_shallow_validation(prop, value)
    IN  IF sv.err # "none" THEN sv
        ELSE IF prop.validator # "none"
        THEN LET nv == call_validator(prop.validator, sv.v)
             IN  IF nv.err # "none" THEN nv
                 ELSE IF nv.v # None THEN nv ELSE sv
        ELSE sv

\* the choices looked at before the validator is called
do_validate_choices_first(prop, value) ==
    IF call_shallow_validation(prop, value).err # "none"
    THEN call_shallow_validation(prop, value)
    ELSE IF prop.choices.k # "none"
            /\ ~InChoices(prop, call_shallow_validation(prop, value).v)
    THEN Raise("BadValueError")
    ELSE validate_before_choices(prop, value)

do_validate_nochoices(prop, value) == validate_before_choices(prop, value)

do_validate(prop, value) ==
    LET vv == validate_before_choices(prop, value)
    IN  IF vv.err # "none" THEN vv
        ELSE IF prop.choices.k # "none" /\ ~InChoices(prop, vv.v)
        THEN Raise("BadValueError")
        ELSE vv

(***************************************************************************)
(* Values in an entity.  name is the descriptor's _name; each operator     *)
(* gives the call's outcome and the entity's _values after it.             *)
(***************************************************************************)
Outcome(r, vals) == [err |-> r.err, v |-> r.v, values |-> vals]

store_value(vals, name, value) == Put(vals, name, value)

\* a stored None gives way to the default
retrieve_value_ordefault(vals, name, default) ==
    IF name \in DOMAIN vals /\ vals[name] # None THEN vals[name] ELSE default

retrieve_value(vals, name, default) ==
    IF name \in DOMAIN vals THEN vals[name] ELSE default

\* the elements are stored as they are validated, up to the one that fails
set_value_partial(prop, name, vals, value) ==
    IF prop.repeated /\ value.k = "list"
    THEN Outcome(IF \E i \in 1..Len(value.s) : do_validate(prop, Atom(value.s[i])).err # "none"
                 THEN Raise("BadValueError") ELSE Ok(None),
                 store_value(vals, name,
                     List(SelectSeq(value.s,
                            LAMBDA x : do_validate(prop, Atom(x)).err = "none"))))
    ELSE IF prop.repeated THEN Outcome(Raise("BadValueError"), vals)
    ELSE IF value = None THEN Outcome(Ok(None), store_value(vals, name, None))
    ELSE Outcome(do_validate(prop, value), store_value(vals, name, value))

set_value(prop, name, vals, value) ==
    IF prop.repeated
    THEN IF value.k # "list"
         THEN Outcome(Raise("BadValueError"), vals)
         ELSE LET rs == [i \in 1..Len(value.s) |-> do_validate(prop, Atom(value.s[i]))]
              IN  IF \E i \in 1..Len(rs) : rs[i].err # "none"
                  THEN LET f == CHOOSE i \in 1..Len(rs) :
                                   rs[i].err # "none"
                                   /\ \A j \in 1..(i - 1) : rs[j].err = "none"
                       IN  Outcome(Raise(rs[f].err), vals)
                  ELSE Outcome(Ok(None),
                               store_value(vals, name,
                                           List([i \in 1..Len(rs) |-> rs[i].v.s[1]])))
    ELSE IF value = None
    THEN Outcome(Ok(None), store_value(vals, name, None))
    ELSE LET r == do_validate(prop, value)
         IN  IF r.err # "none" THEN Outcome(Raise(r.err), vals)
             ELSE Outcome(Ok(None), store_value(vals, name, r.v))

\* _apply_to_values with _opt_call_from_base_type, which returns its argument
get_value(prop, name, vals) ==
    LET value == retrieve_value(vals, name, prop.default)
    IN  IF prop.repeated
        THEN IF value = None
             THEN Outcome(Ok(List(<<>>)), store_value(vals, name, List(<<>>)))
             ELSE Outcome(Ok(value), vals)
        ELSE Outcome(Ok(value), vals)

\* StructuredProperty._get_value: with no value it reads entity._projection,
\* which neither class Model nor Model.__init__ sets
structured_get_value(prop, name, vals) ==
    IF get_value(prop, name, vals).v = None
    THEN Outcome(Raise("AttributeError"), get_value(prop, name, vals).values)
    ELSE get_value(prop, name, vals)

\* prop._get_value(entity), by the type of the field
property_get_value(prop, name, vals) ==
    IF prop.type = "Structured" THEN structured_get_value(prop, name, vals)
    ELSE get_value(prop, name, vals)

\* the entry is kept, holding None
delete_value_tonone(name, vals) ==
    IF name \in DOMAIN vals THEN Put(vals, name, None) ELSE vals

delete_value(name, vals) ==
    IF name \in DOMAIN vals THEN Del(vals, name) ELSE vals

(***************************************************************************)
(* Temporal fields.  The clock counts instants; TicksPerDay of them make   *)
(* a day, so an instant has a date and a time of day.                      *)
(***************************************************************************)
\* instants in a day of the model's clock
TicksPerDay == 2
\* last instant of the model's clock
MaxClock == 3

utcnow(clock) == DateTime(clock \div TicksPerDay, clock % TicksPerDay)

\* DateTimeProperty._now, DateProperty._now, TimeProperty._now
now_value(type, clock) ==
    IF type = "Date" THEN Date(utcnow(clock).day)
    ELSE IF type = "Time" THEN Time(utcnow(clock).tod)
    ELSE utcnow(clock)

\* _prepare_for_put that overwrites only a field without an entry
prepare_for_put_ifabsent(prop, name, vals, clock) ==
    IF prop.auto_now /\ name \notin DOMAIN vals
    THEN Outcome(Ok(None), store_value(vals, name, Atom(now_value(prop.type, clock))))
    ELSE IF ~prop.auto_now /\ prop.auto_now_add
    THEN Outcome(Raise(method_fault(prop.type, "_has_value")), vals)
    ELSE Outcome(Ok(None), vals)

\* DateTimeProperty._prepare_for_put(entity).  `or` evaluates
\* self._has_value(entity) only when auto_now is false and auto_now_add
\* true; no class of a temporal field defines _has_value, so that call
\* raises and nothing is stored.
prepare_for_put(prop, name, vals, clock) ==
    IF prop.auto_now
    THEN Outcome(Ok(None), store_value(vals, name, Atom(now_value(prop.type, clock))))
    ELSE IF prop.auto_now_add
    THEN Outcome(Raise(method_fault(prop.type, "_has_value")), vals)
    ELSE Outcome(Ok(None), vals)

(***************************************************************************)
(* The Model subclasses.  TestModel is the class of tests/test_models.py   *)
(* with the options the properties are about; Stamped holds the temporal   *)
(* fields; Address, Leaf, Mid and Top nest through structured fields.      *)
(* A class statement runs its fields' constructors once, before any        *)
(* instance exists.                                                        *)
(***************************************************************************)
String(over) == Property_init(over).prop
Temporal(over) == DateTimeProperty_init(over).prop
\* no instance exists while the class statements run: _has_repeated reads False
Structured(over) == StructuredProperty_init(over, FALSE).prop

ClassFields ==
    [TestModel |->
        [title |-> String(Args("String")),
         jive  |-> String([Args("String") EXCEPT
                              !.repeated = TRUE,
                              !.choices = Choices({Str("a"), Str("s"), Str("d")})]),
         total |-> String([Args("String") EXCEPT
                              !.name = "sum",
                              !.default = Atom(Str("s")),
                              !.validator = "lower",
                              !.choices = Choices({Str("a"), Str("s")})])],
     Stamped |->
        [created |-> Temporal([Args("DateTime") EXCEPT !.auto_now_add = TRUE]),
         updated |-> Temporal([Args("DateTime") EXCEPT !.auto_now = TRUE]),
         day     |-> Temporal([Args("Date") EXCEPT !.auto_now = TRUE]),
         at      |-> Temporal([Args("Time") EXCEPT !.auto_now = TRUE])],
     Address |->
        [type   |-> String(Args("String")),
         street |-> String(Args("String")),
         city   |-> String(Args("String"))],
     Leaf |->
        [city   |-> String(Args("String")),
         street |-> String([Args("String") EXCEPT !.name = "st"]),
         tags   |-> String([Args("String") EXCEPT !.repeated = TRUE])],
     Mid |-> [leaf |-> Structured([Args("Structured") EXCEPT !.modelclass = "Leaf"])],
     Top |-> [mid |-> Structured([Args("Structured") EXCEPT !.modelclass = "Mid"])],
     Person |->
        [home      |-> Structured([Args("Structured") EXCEPT !.modelclass = "Leaf"]),
         addresses |-> Structured([Args("Structured") EXCEPT
                                      !.modelclass = "Address", !.repeated = TRUE]),
         hidden    |-> Structured([Args("Structured") EXCEPT
                                      !.modelclass = "Address", !.indexed = FALSE])]]

Classes == DOMAIN ClassFields
Fields(cls) == DOMAIN ClassFields[cls]

NoMap == [x \in {"<unset>"} |-> "<unset>"]

\* the storage name bound anew at every fix-up
fix_up_name_rebind(name, code_name) == code_name

\* Property._fix_up: the code name, and the storage name unless it is set
fix_up_name(name, code_name) == IF name = NoName THEN code_name ELSE name

\* Model._fix_up_properties, its three results
fixed_names(cls, names) ==
    [f \in Fields(cls) |-> fix_up_name(names[f], f)]

bind_properties(bound) ==
    [n \in {bound[f] : f \in DOMAIN bound} |-> CHOOSE f \in DOMAIN bound : bound[f] = n]

fixed_properties(cls, names) == bind_properties(fixed_names(cls, names))

fixed_has_repeated(cls, hasrep) ==
    hasrep[cls]
    \/ \E f \in Fields(cls) :
          LET attr == ClassFields[cls][f]
          IN  attr.repeated
              \/ (attr.type = "Structured" /\ hasrep[attr.modelclass])

FixUp(cls) ==
    /\ prop_code_name' = [prop_code_name EXCEPT ![cls] = [f \in Fields(cls) |-> f]]
    /\ prop_name' = [prop_name EXCEPT ![cls] = fixed_names(cls, prop_name[cls])]
    /\ properties' = [properties EXCEPT ![cls] = fixed_properties(cls, prop_name[cls])]
    /\ has_repeated' = [has_repeated EXCEPT ![cls] = fixed_has_repeated(cls, has_repeated)]

(***************************************************************************)
(* Entities.                                                               *)
(***************************************************************************)
EntityClass == [m |-> "TestModel", p |-> "Stamped", q |-> "Person"]
Entities == DOMAIN EntityClass

Unset == [k |-> "unset", s |-> <<>>]
\* the field was deleted and not set since
Deleted == [k |-> "deleted", s |-> <<>>]
NoField == ""

Prop(e, f) == ClassFields[EntityClass[e]][f]
\* the descriptor's _name once the class is fixed up
NameAfterFixUp(e, f) == fix_up_name(prop_name[EntityClass[e]][f], f)
Name(e, f) == prop_name[EntityClass[e]][f]

Call(op, f, arg) == [op |-> op, f |-> f, arg |-> arg]

\* Model.__init__(**kwds) with no keyword or one, f = value
Construct(e, f, value) ==
    /\ ~alive[e]
    /\ FixUp(EntityClass[e])
    /\ \E r \in {IF f = NoField THEN Outcome(Ok(None), EmptyDict)
                ELSE set_value(Prop(e, f), NameAfterFixUp(e, f), EmptyDict, value)} :
           /\ ret' = [err |-> r.err, v |-> r.v]
           /\ alive' = [alive EXCEPT ![e] = (r.err = "none")]
           /\ values' = [values EXCEPT ![e] = r.values]
           /\ lastset' = [lastset EXCEPT ![e] =
                             [g \in Fields(EntityClass[e]) |->
                                 IF g = f /\ r.err = "none" THEN value ELSE Unset]]
    /\ last' = Call("new", f, value)
    /\ UNCHANGED <<attrs, codecVars, now, ctor, filterVars, restVars>>

\* prop._set_value(entity, value), as populate(f=value) calls it
SetValue(e, f, value) ==
    /\ alive[e]
    /\ \E r \in {set_value(Prop(e, f), Name(e, f), values[e], value)} :
           /\ ret' = [err |-> r.err, v |-> r.v]
           /\ values' = [values EXCEPT ![e] = r.values]
           /\ lastset' = IF r.err = "none"
                         THEN [lastset EXCEPT ![e][f] = value]
                         ELSE lastset
    /\ last' = Call("set", f, value)
    /\ UNCHANGED <<alive, attrs, classVars, codecVars, now, ctor, filterVars, restVars>>

\* prop._get_value(entity)
GetValue(e, f) ==
    /\ alive[e]
    /\ \E r \in {property_get_value(Prop(e, f), Name(e, f), values[e])} :
           /\ ret' = [err |-> r.err, v |-> r.v]
           /\ values' = [values EXCEPT ![e] = r.values]
    /\ last' = Call("get", f, None)
    /\ UNCHANGED <<alive, attrs, lastset, classVars, codecVars, now, ctor, filterVars, restVars>>

\* prop._delete_value(entity)
DeleteValue(e, f) ==
    /\ alive[e]
    /\ values' = [values EXCEPT ![e] = delete_value(Name(e, f), values[e])]
    /\ lastset' = [lastset EXCEPT ![e][f] = Deleted]
    /\ ret' = Ok(None)
    /\ last' = Call("delete", f, None)
    /\ UNCHANGED <<alive, attrs, classVars, codecVars, now, ctor, filterVars, restVars>>

\* entity.f = value.  Property defines __get__ and neither __set__ nor
\* __delete__, so the assignment binds f in the instance's own dictionary.
AttrAssign(e, f, value) ==
    /\ alive[e]
    /\ attrs' = [attrs EXCEPT ![e] = Put(attrs[e], f, value)]
    /\ ret' = Ok(None)
    /\ last' = Call("assign", f, value)
    /\ UNCHANGED <<alive, values, lastset, classVars, codecVars, now, ctor, filterVars, restVars>>

\* entity.f: the instance's dictionary comes before a descriptor that has
\* no __set__; otherwise Property.__get__ calls _get_value
AttrRead(e, f) ==
    /\ alive[e]
    /\ \E r \in {IF f \in DOMAIN attrs[e]
                THEN Outcome(Ok(attrs[e][f]), values[e])
                ELSE property_get_value(Prop(e, f), Name(e, f), values[e])} :
           /\ ret' = [err |-> r.err, v |-> r.v]
           /\ values' = [values EXCEPT ![e] = r.values]
    /\ last' = Call("read", f, None)
    /\ UNCHANGED <<alive, attrs, lastset, classVars, codecVars, now, ctor, filterVars, restVars>>

(***************************************************************************)
(* StructuredProperty: sub-fields and the equality filter.                 *)
(*                                                                         *)
(* A nested entity is given by its _values.  A filter is a FilterNode, or  *)
(* a ConjunctionNode of FilterNodes and at most one PostFilterNode.        *)
(***************************************************************************)
\* the names class DataStoreErrors defines
DataStoreErrors == {"BadValueError"}

\* raise datastore_errors.<name>(...): a name the class lacks is itself an
\* AttributeError
datastore_error(name) ==
    IF name \in DataStoreErrors THEN name ELSE "AttributeError"

NoKeys == <<>>

FilterNode(name, op, val) ==
    [kind |-> "FilterNode", name |-> name, op |-> op, val |-> val,
     keys |-> NoKeys, prefix |-> ""]

\* PostFilterNode(RepeatedStructuredPropertyPredicate(match_keys, pb, prefix))
PostFilterNode(match_keys, prefix) ==
    [kind |-> "PostFilterNode", name |-> "", op |-> "", val |-> None,
     keys |-> match_keys, prefix |-> prefix]

Filter(kind, nodes) == [err |-> "none", kind |-> kind, nodes |-> nodes]
FilterFault(e) == [err |-> e, kind |-> "", nodes |-> <<>>]

\* Property._comparison of a sub-field: one condition on its name
property_comparison(name, op, val) == FilterNode(name, op, val)

unwrapped_as_list(repeated, value) ==
    IF repeated
    THEN IF value = None THEN <<>> ELSE [i \in 1..Len(value.s) |-> Atom(value.s[i])]
    ELSE <<value>>

\* prop._get_base_value_unwrapped_as_list(entity)
get_base_value_unwrapped_as_list(prop, name, vals) ==
    unwrapped_as_list(prop.repeated, retrieve_value(vals, name, prop.default))

\* what a structured field knows of its nested class once that is fixed up
Nested(cls) ==
    [cls |-> cls,
     fixed |-> properties[cls] # NoMap,
     properties |-> properties[cls],
     names |-> prop_name[cls],
     code_names |-> prop_code_name[cls]]

NestedFixedUp(cls) ==
    [cls |-> cls,
     fixed |-> TRUE,
     properties |-> fixed_properties(cls, prop_name[cls]),
     names |-> fixed_names(cls, prop_name[cls]),
     code_names |-> [f \in DOMAIN prop_code_name[cls] |-> f]]

\* __getattr__, line 437: the optimistic lookup by dictionary key
sub_hit(nst, attrname) ==
    IF attrname \in DOMAIN nst.properties THEN nst.properties[attrname] ELSE NoField

\* __getattr__, lines 441-443: the registered fields with that code name
sub_scan(nst, attrname) ==
    {f \in DOMAIN nst.code_names :
        /\ \E n \in DOMAIN nst.properties : nst.properties[n] = f
        /\ nst.code_names[f] = attrname}

\* __getattr__, lines 439-446: the hit if its code name matches, else the
\* field the linear search finds
sub_pick(nst, attrname, hit, scan) ==
    IF hit # NoField /\ nst.code_names[hit] = attrname THEN hit
    ELSE IF scan # {} THEN CHOOSE f \in scan : TRUE
    ELSE NoField

sub_find(nst, attrname) ==
    sub_pick(nst, attrname, sub_hit(nst, attrname), sub_scan(nst, attrname))

NoSub == [err |-> "none", name |-> NoName, field |-> NoField]

\* __getattr__, lines 447-455: the copy of the field found, under the
\* dotted name; selfname is this field's _name
sub_copy(selfname, nst, found) ==
    IF found = NoField THEN [NoSub EXCEPT !.err = "AttributeError"]
    ELSE IF selfname = NoName THEN [NoSub EXCEPT !.err = "TypeError"]
    ELSE [err |-> "none", name |-> selfname \o "." \o nst.names[found],
          field |-> found]

\* StructuredProperty.__getattr__(attrname)
structured_getattr(selfname, nst, attrname) ==
    IF ~nst.fixed THEN [NoSub EXCEPT !.err = "AttributeError"]
    ELSE sub_copy(selfname, nst, sub_find(nst, attrname))

\* line 455: setattr(self, attrname, prop_copy)
sub_cache(cache, attrname, r) ==
    [err |-> r.err, name |-> r.name, field |-> r.field,
     cache |-> IF r.err = "none"
               THEN Put(cache, attrname, [name |-> r.name, field |-> r.field])
               ELSE cache]

\* getattr(self, attrname): the copy cached by an earlier __getattr__, or a
\* new one.  cache is what setattr has put on this structured field.
sub(selfname, nst, cache, attrname) ==
    IF attrname \in DOMAIN cache
    THEN [err |-> "none", name |-> cache[attrname].name,
          field |-> cache[attrname].field, cache |-> cache]
    ELSE sub_cache(cache, attrname, structured_getattr(selfname, nst, attrname))

\* lines 491-501: what _comparison returns for the conditions it collected
comparison_result(self, selfname, filters, match_keys) ==
    IF Len(filters) = 0 THEN FilterFault(datastore_error("BadFilterError"))
    ELSE IF Len(filters) = 1 THEN Filter("FilterNode", filters)
    ELSE IF self.repeated
    THEN Filter("ConjunctionNode",
                filters \o <<PostFilterNode(match_keys, selfname \o ".")>>)
    ELSE Filter("ConjunctionNode", filters)

\* lines 485-490: the condition of one field that has a value
comparison_add(acc, op, val, alt) ==
    IF alt.err # "none" THEN [acc EXCEPT !.err = alt.err]
    ELSE [err |-> "none",
          filters |-> Append(acc.filters, property_comparison(alt.name, op, val)),
          match_keys |-> Append(acc.match_keys, alt.name),
          cache |-> alt.cache]

\* lines 478-490: the body of the loop for one field of the nested class,
\* lst being its values.  acc is [err, filters, match_keys, cache].
comparison_field(selfname, nst, op, f, repeated, lst, acc) ==
    IF repeated
    THEN IF Len(lst) > 0
         THEN [acc EXCEPT !.err = datastore_error("BadFilterError")]
         ELSE acc
    ELSE IF lst[1] = None THEN acc
    ELSE comparison_add(acc, op, lst[1],
                        sub(selfname, nst, acc.cache, nst.code_names[f]))

\* line 478: prop._get_base_value_unwrapped_as_list is looked up first
comparison_step(selfname, nst, op, vals, f, acc) ==
    IF method_fault(ClassFields[nst.cls][f].type,
                    "_get_base_value_unwrapped_as_list") # "none"
    THEN [acc EXCEPT !.err = method_fault(ClassFields[nst.cls][f].type,
                                          "_get_base_value_unwrapped_as_list")]
    ELSE comparison_field(selfname, nst, op, f, ClassFields[nst.cls][f].repeated,
            get_base_value_unwrapped_as_list(ClassFields[nst.cls][f], nst.names[f],
                                             vals),
            acc)

\* line 477: the loop over the nested class's fields, in the order the
\* dictionary gives them; a fault ends it
RECURSIVE comparison_loop(_, _, _, _, _, _)
comparison_loop(selfname, nst, op, vals, order, acc) ==
    IF Len(order) = 0 \/ acc.err # "none" THEN acc
    ELSE comparison_loop(selfname, nst, op, vals, Tail(order),
                         comparison_step(selfname, nst, op, vals, order[1], acc))

\* StructuredProperty._validate(value): an instance of the nested class
structured_validate(value) ==
    IF value.k = "instance" THEN "none" ELSE datastore_error("BadValueError")

\* lines 491-501 after the loop: a fault of the loop is the call's fault
comparison_finish(self, selfname, acc) ==
    [filter |-> IF acc.err # "none" THEN FilterFault(acc.err)
                ELSE comparison_result(self, selfname, acc.filters, acc.match_keys),
     cache |-> acc.cache]

\* StructuredProperty._comparison(op, value): the filter or the fault, and
\* the sub-fields cached on the way.  Line 473 calls
\* self._call_to_base_type, which no class defines: a value that passed
\* validation gets no further.
comparison(self, selfname, nst, op, value, order, cache) ==
    IF op # "="
    THEN [filter |-> FilterFault(datastore_error("BadFilterError")), cache |-> cache]
    ELSE IF ~self.indexed
    THEN [filter |-> FilterFault(datastore_error("BadFilterError")), cache |-> cache]
    ELSE IF value.k = "none"
    THEN [filter |-> Filter("FilterNode", <<FilterNode(selfname, op, None)>>),
          cache |-> cache]
    ELSE IF structured_validate(value) # "none"
    THEN [filter |-> FilterFault(structured_validate(value)), cache |-> cache]
    ELSE IF method_fault(self.type, "_call_to_base_type") # "none"
    THEN [filter |-> FilterFault(method_fault(self.type, "_call_to_base_type")),
          cache |-> cache]
    ELSE comparison_finish(self, selfname,
            comparison_loop(selfname, nst, op, value.vals, order,
                            [err |-> "none", filters |-> <<>>, match_keys |-> <<>>,
                             cache |-> cache]))

NoEntity == [k |-> "none", vals |-> EmptyDict]
Instance(vals) == [k |-> "instance", vals |-> vals]
NotAnEntity == [k |-> "other", vals |-> EmptyDict]

NoQuery == [cls |-> NoClass, f |-> NoField, op |-> "", value |-> NoEntity, order |-> <<>>]
NoResult == [err |-> "pending", kind |-> "", nodes |-> <<>>]

\* cls.f._comparison(op, value).  A value that is an instance was
\* constructed before the call, which fixed up its class.
Comparison(cls, f, op, value, order) ==
    /\ ClassFields[cls][f].type = "Structured"
    /\ \E nested \in {ClassFields[cls][f].modelclass} :
          \E nst \in {IF value.k = "instance" THEN NestedFixedUp(nested)
                      ELSE Nested(nested)} :
             \E r \in {comparison(ClassFields[cls][f], prop_name[cls][f], nst,
                                  op, value, order, subprops[cls][f])} :
                /\ IF value.k = "instance" THEN FixUp(nested) ELSE UNCHANGED classVars
                /\ result' = r.filter
                /\ subprops' = [subprops EXCEPT ![cls][f] = r.cache]
    /\ query' = [cls |-> cls, f |-> f, op |-> op, value |-> value, order |-> order]
    /\ last' = Call("comparison", f, None)
    /\ UNCHANGED <<entityVars, ret, codecVars, now, ctor, restVars>>

\* getattr(cls.f, attrname) for a name ordinary lookup does not find: the
\* copy's _name is returned
Sub(cls, f, attrname) ==
    /\ ClassFields[cls][f].type = "Structured"
    /\ \E r \in {sub(prop_name[cls][f], Nested(ClassFields[cls][f].modelclass),
                       subprops[cls][f], attrname)} :
           /\ ret' = IF r.err = "none" THEN Ok(Atom(Str(r.name))) ELSE Raise(r.err)
           /\ subprops' = [subprops EXCEPT ![cls][f] = r.cache]
    /\ last' = Call("sub", f, Atom(Str(attrname)))
    /\ UNCHANGED <<entityVars, classVars, codecVars, now, ctor, query, result, restVars>>

\* prop._prepare_for_put(entity) of a temporal field
PrepareForPut(e, f) ==
    /\ alive[e]
    /\ Prop(e, f).type \in TemporalTypes
    /\ \E r \in {prepare_for_put(Prop(e, f), Name(e, f), values[e], now)} :
           /\ ret' = [err |-> r.err, v |-> r.v]
           /\ values' = [values EXCEPT ![e] = r.values]
    /\ last' = Call("put", f, None)
    /\ UNCHANGED <<alive, attrs, lastset, classVars, codecVars, now, ctor, filterVars, restVars>>

\* time passes
Tick ==
    /\ now < MaxClock
    /\ now' = now + 1
    /\ UNCHANGED <<classVars, entityVars, callVars, codecVars, ctor, filterVars, restVars>>

\* cls(): an instance is constructed with no keyword and dropped; what
\* stays is what _fix_up_properties did to the class
Instantiate(cls) ==
    /\ FixUp(cls)
    /\ last' = Call("new", cls, None)
    /\ ret' = Ok(None)
    /\ UNCHANGED <<entityVars, codecVars, now, ctor, filterVars, restVars>>

\* a field is declared: its constructor runs
NewProperty(args) ==
    /\ \E r \in {new_property(args, has_repeated)} :
           ctor' = [args |-> args, err |-> r.err, prop |-> r.prop]
    /\ UNCHANGED <<classVars, entityVars, callVars, codecVars, now, filterVars, restVars>>

(***************************************************************************)
(* Initial values of the variables a specification does not use.           *)
(***************************************************************************)
NoCall == Call("", NoField, None)
NoCtor == [args |-> NoProp, err |-> "pending", prop |-> NoProp]

(***************************************************************************)
(* DateTimeProperty._db_set_value / _db_get_value.                         *)
(*                                                                         *)
(* A datetime is its calendar fields.  The 64-bit integer given to the     *)
(* protocol buffer is kept as quotient (hi) and remainder (lo) by 1000000: *)
(* its value is hi * 1000000 + lo with 0 <= lo < 1000000.  The dates of    *)
(* datetime (years 1 to 9999) stay below 2^63 microseconds, so the integer *)
(* never wraps.                                                            *)
(***************************************************************************)
datetime(y, mo, d, h, mi, sec, us) ==
    [ty |-> "datetime", tz |-> "naive", year |-> y, month |-> mo, day |-> d,
     hour |-> h, minute |-> mi, second |-> sec, microsecond |-> us]

NoDatetime == [datetime(1, 1, 1, 0, 0, 0, 0) EXCEPT !.ty = "none"]

\* datetime.datetime.utcfromtimestamp(0)
EPOCH == datetime(1970, 1, 1, 0, 0, 0, 0)

\* the proleptic Gregorian ordinal of a date, 0001-01-01 being day 1
is_leap(y) == y % 4 = 0 /\ (y % 100 # 0 \/ y % 400 = 0)

days_before_year(y) ==
    (y - 1) * 365 + ((y - 1) \div 4) - ((y - 1) \div 100) + ((y - 1) \div 400)

days_in_month(y, m) ==
    IF m = 2 /\ is_leap(y) THEN 29
    ELSE <<31, 28, 31, 30, 31, 30, 31, 31, 30, 31, 30, 31>>[m]

days_before_month(y, m) ==
    <<0, 31, 59, 90, 120, 151, 181, 212, 243, 273, 304, 334>>[m]
    + (IF m > 2 /\ is_leap(y) THEN 1 ELSE 0)

toordinal(t) == days_before_year(t.year) + days_before_month(t.year, t.month) + t.day

\* the date of an ordinal; years run from datetime.MINYEAR to MAXYEAR
ord_year(n) ==
    CHOOSE y \in 1..9999 :
        days_before_year(y) < n /\ n <= days_before_year(y + 1)

ord_month(y, n) ==
    CHOOSE m \in 1..12 :
        /\ days_before_month(y, m) < n - days_before_year(y)
        /\ n - days_before_year(y) <= days_before_month(y, m) + days_in_month(y, m)

ord_date(y, m, n) ==
    [year |-> y, month |-> m,
     day |-> n - days_before_year(y) - days_before_month(y, m)]

fromordinal(n) == ord_date(ord_year(n), ord_month(ord_year(n), n), n)

\* timedelta(days, seconds, microseconds), normalised as timedelta does:
\* 0 <= seconds < 86400 and 0 <= microseconds < 1000000
timedelta(d, sec, us) ==
    [days |-> d + ((sec + (us \div 1000000)) \div 86400),
     seconds |-> (sec + (us \div 1000000)) % 86400,
     microseconds |-> us % 1000000]

second_of_day(t) == t.hour * 3600 + t.minute * 60 + t.second

\* a - b for two naive datetimes
datetime_sub(a, b) ==
    timedelta(toordinal(a) - toordinal(b),
              second_of_day(a) - second_of_day(b),
              a.microsecond - b.microsecond)

\* t + delta
datetime_at(date, sec, us) ==
    datetime(date.year, date.month, date.day,
             sec \div 3600, (sec % 3600) \div 60, sec % 60, us)

datetime_add_normal(t, delta) ==
    datetime_at(fromordinal(toordinal(t) + delta.days), delta.seconds,
                delta.microseconds)

datetime_add(t, delta) ==
    datetime_add_normal(t, timedelta(delta.days,
                                     second_of_day(t) + delta.seconds,
                                     t.microsecond + delta.microseconds))

NoInt64 == [has |-> FALSE, hi |-> 0, lo |-> 0]
Int64(hi, lo) == [has |-> TRUE, hi |-> hi, lo |-> lo]

\* line 666: dt.microseconds + 1000000 * (dt.seconds + 24 * 3600 * dt.days)
ival_of(dt) == Int64(dt.seconds + 24 * 3600 * dt.days, dt.microseconds)

\* the days of the difference are left out
db_set_value_nodays(value) ==
    IF value.ty # "datetime" THEN [err |-> "TypeError", v |-> NoInt64]
    ELSE IF value.tz # "naive" THEN [err |-> "NotImplementedError", v |-> NoInt64]
    ELSE [err |-> "none",
          v |-> ival_of([datetime_sub(value, EPOCH) EXCEPT !.days = 0])]

\* DateTimeProperty._db_set_value(v, p, value): what v is set to
db_set_value(value) ==
    IF value.ty # "datetime" THEN [err |-> "TypeError", v |-> NoInt64]
    ELSE IF value.tz # "naive" THEN [err |-> "NotImplementedError", v |-> NoInt64]
    ELSE [err |-> "none", v |-> ival_of(datetime_sub(value, EPOCH))]

\* timedelta(microseconds=ival)
timedelta_of(ival) == timedelta(0, ival.hi, ival.lo)

\* DateTimeProperty._db_get_value(v, unused_p): None when v has no integer
db_get_value(v) ==
    IF ~v.has THEN NoDatetime ELSE datetime_add(EPOCH, timedelta_of(v))

InitDb ==
    /\ dt_value = NoDatetime
    /\ int64value = NoInt64
    /\ dt_read = NoDatetime

\* methods.reverse()
RECURSIVE Reverse(_)
Reverse(q) == IF Len(q) = 0 THEN <<>> ELSE Reverse(Tail(q)) \o <<q[1]>>

\* the composition the docstring of _call_shallow_validation gives for
\* _call_to_base_type: every _validate and _to_base_type, in MRO order
call_to_base_type(type, value) ==
    apply_list(find_methods(type, <<"_validate", "_to_base_type">>), value)

\* the composition the docstring of _get_user_value gives: every
\* _from_base_type, in reverse MRO order
call_from_base_type(type, value) ==
    apply_list(Reverse(find_methods(type, <<"_from_base_type">>)), value)

Pending == [err |-> "pending", v |-> None]

InitConv ==
    /\ conv_type = ""
    /\ user_value = None
    /\ base_value = Pending
    /\ back_value = Pending
    /\ conv_step = "idle"
    /\ shallow_list = <<>>

Threads == {"t1", "t2"}

NotSeen == [registered |-> FALSE, map |-> NoMap]

InitRace ==
    /\ fix_pc = [t \in Threads |-> [at |-> "idle", n |-> 0]]
    /\ fix_todo = [t \in Threads |-> {}]
    /\ registered = FALSE
    /\ seen = NotSeen

\* a call of _find_methods that is not running
NoFind == [at |-> "idle", names |-> <<>>, reverse |-> FALSE, cache |-> 0,
           methods |-> 0, n |-> 0]

NoReturn == [names |-> <<>>, list |-> 0]

\* no class has a _find_methods_cache yet
InitFm ==
    /\ fm_cache = 0
    /\ fm_dicts = <<>>
    /\ fm_lists = <<>>
    /\ fm_call = [t \in Threads |-> NoFind]
    /\ fm_ret = [t \in Threads |-> NoReturn]

\* no field is under test
\* list objects are numbered as they are made; 0 is no list
NoIds == [stored |-> 0, returned |-> 0, next |-> 0]

InitSet ==
    /\ set_prop = NoProp
    /\ set_values = EmptyDict
    /\ set_ids = NoIds

InitRest == InitDb /\ InitConv /\ InitRace /\ InitFm /\ InitSet

IdleCodec ==
    /\ key = NoKey
    /\ resource_id = NoToken
    /\ decoded = NotDecoded
    /\ cstage = "idle"

InitClasses ==
    /\ has_repeated = [c \in Classes |-> FALSE]
    /\ properties = [c \in Classes |-> NoMap]
    /\ prop_name = [c \in Classes |-> [f \in Fields(c) |-> ClassFields[c][f].name]]
    /\ prop_code_name = [c \in Classes |-> [f \in Fields(c) |-> NoName]]

InitFilter ==
    /\ subprops = [c \in Classes |-> [f \in Fields(c) |-> EmptyDict]]
    /\ query = NoQuery
    /\ result = NoResult

InitEntities ==
    /\ alive = [e \in Entities |-> FALSE]
    /\ values = [e \in Entities |-> EmptyDict]
    /\ attrs = [e \in Entities |-> EmptyDict]
    /\ lastset = [e \in Entities |-> [f \in Fields(EntityClass[e]) |-> Unset]]
    /\ last = NoCall
    /\ ret = Ok(None)

(***************************************************************************)
(* SpecCodec: a key is encoded, the token is decoded.                      *)
(***************************************************************************)
InitCodec ==
    /\ key \in KeyInputs
    /\ resource_id = NoToken
    /\ decoded = NotDecoded
    /\ cstage = "key"
    /\ InitClasses
    /\ InitEntities
    /\ InitFilter
    /\ now = 0
    /\ ctor = NoCtor
    /\ InitRest

Encode ==
    /\ cstage = "key"
    /\ resource_id' = get_resource_id_from_key(key)
    /\ cstage' = "encoded"
    /\ UNCHANGED <<key, decoded, classVars, entityVars, callVars, now, ctor, filterVars, restVars>>

Decode ==
    /\ cstage = "encoded"
    /\ decoded' = get_key_from_resource_id(resource_id)
    /\ cstage' = "decoded"
    /\ UNCHANGED <<key, resource_id, classVars, entityVars, callVars, now, ctor, filterVars, restVars>>

NextCodec == Encode \/ Decode

SpecCodec == InitCodec /\ [][NextCodec]_vars

(***************************************************************************)
(* Spec: one TestModel entity is constructed, then its fields are set,     *)
(* read and deleted through their descriptors and as attributes.           *)
(***************************************************************************)
\* longest list a repeated field is set to (the test's list is added)
MaxLen == 2

TestJive == <<Str("a"), Str("s"), Str("d")>>

SeqsUpTo(S, n) == UNION {[1..k -> S] : k \in 0..n}

SetInputs ==
    [title |-> {None, Atom(Str("cheese")), Atom(Str("a")), Atom(IntAtom("7"))},
     total |-> {None, Atom(Str("a")), Atom(Str("s")), Atom(Str("A")),
                Atom(Str("d")), Atom(IntAtom("7"))},
     jive  |-> {List(q) : q \in SeqsUpTo({Str("a"), Str("s"), Str("d")}, MaxLen)}
               \cup {List(TestJive), List(<<Str("a"), Str("cheese")>>),
                     List(<<Str("a"), IntAtom("7")>>), Atom(Str("a"))}]

AttrInputs ==
    [title |-> {Atom(Str("cheese")), Atom(IntAtom("7"))},
     total |-> {},
     jive  |-> {}]

Init ==
    /\ IdleCodec
    /\ InitClasses
    /\ InitEntities
    /\ InitFilter
    /\ now = 0
    /\ ctor = NoCtor
    /\ InitRest

Next ==
    \E f \in Fields("TestModel") :
        \/ Construct("m", NoField, None)
        \/ \E v \in SetInputs[f] : Construct("m", f, v)
        \/ \E v \in SetInputs[f] : SetValue("m", f, v)
        \/ GetValue("m", f)
        \/ DeleteValue("m", f)
        \/ \E v \in AttrInputs[f] : AttrAssign("m", f, v)
        \/ AttrRead("m", f)

Spec == Init /\ [][Next]_vars

(***************************************************************************)
(* SpecPut: one Stamped entity; its temporal fields are set by the caller  *)
(* and finalized by _prepare_for_put while the clock advances.             *)
(***************************************************************************)
PutInputs ==
    [created |-> {None, Atom(DateTime(0, 0)), Atom(Str("a"))},
     updated |-> {None, Atom(DateTime(0, 0))},
     day     |-> {Atom(Date(0)), Atom(Time(0))},
     at      |-> {Atom(Time(0))}]

NextPut ==
    \/ Tick
    \/ \E f \in Fields("Stamped") :
           \/ Construct("p", NoField, None)
           \/ \E v \in PutInputs[f] : SetValue("p", f, v)
           \/ DeleteValue("p", f)
           \/ PrepareForPut("p", f)

SpecPut == Init /\ [][NextPut]_vars

(***************************************************************************)
(* SpecDecl: fields are declared (their constructors run) while instances  *)
(* of the nesting classes are constructed, in any order.                   *)
(***************************************************************************)
DeclClasses == {"Address", "Leaf", "Mid", "Top"}

DeclArgs ==
    {[Args(t) EXCEPT !.repeated = rep, !.required = req, !.default = def] :
        t \in {"String"}, rep \in BOOLEAN, req \in BOOLEAN,
        def \in {None, Atom(Str("a"))}}
    \cup
    {[Args(t) EXCEPT !.repeated = rep, !.required = req,
                     !.auto_now = an, !.auto_now_add = ana] :
        t \in {"DateTime", "Date"}, rep \in BOOLEAN, req \in BOOLEAN,
        an \in BOOLEAN, ana \in BOOLEAN}
    \cup
    {[Args("Structured") EXCEPT !.repeated = rep, !.required = req,
                                !.modelclass = c] :
        rep \in BOOLEAN, req \in BOOLEAN, c \in DeclClasses}

NextDecl ==
    \/ \E c \in DeclClasses : Instantiate(c)
    \/ \E a \in DeclArgs : NewProperty(a)

SpecDecl == Init /\ [][NextDecl]_vars

(***************************************************************************)
(* SpecFilter: equality filters are built on the structured fields of      *)
(* Person, before and after Person and the nested classes are fixed up.    *)
(***************************************************************************)
Perms(S) == {q \in [1..Cardinality(S) -> S] : \A i, j \in 1..Cardinality(S) :
                                                  q[i] = q[j] => i = j}

\* the _values of the nested entities filters are built for: each field
\* either never set or set to one value
Dicts(choice) ==
    {d \in UNION {[D -> UNION {{choice[n]} : n \in DOMAIN choice}] :
                     D \in SUBSET DOMAIN choice} :
        \A n \in DOMAIN d : d[n] = choice[n]}

NestedValues ==
    [Leaf    |-> Dicts([city |-> Atom(Str("x")),
                        st   |-> Atom(Str("y")),
                        tags |-> List(<<Str("t")>>)]),
     Address |-> {Put(d, "type", Atom(Str("home"))) :
                     d \in Dicts([street |-> Atom(Str("y")),
                                  city   |-> Atom(Str("x"))])}]

FilterValues(f) ==
    {NoEntity, NotAnEntity}
    \cup {Instance(d) : d \in NestedValues[ClassFields["Person"][f].modelclass]}

SubNames ==
    [home |-> {"city", "street", "st", "zip"}, addresses |-> {"city"}, hidden |-> {}]

NextFilter ==
    \/ Instantiate("Person")
    \/ \E f \in Fields("Person") : \E a \in SubNames[f] : Sub("Person", f, a)
    \/ \E f \in Fields("Person") :
          \E order \in Perms(Fields(ClassFields["Person"][f].modelclass)) :
             \/ \E value \in FilterValues(f) : Comparison("Person", f, "=", value, order)
             \/ Comparison("Person", f, "<", NoEntity, order)

SpecFilter == Init /\ [][NextFilter]_vars

C2_AssignValidates ==
    /\ last.op = "assign" =>
          \E r \in {set_value(Prop("m", last.f), Name("m", last.f), EmptyDict,
                              last.arg)} :
             IF r.err = "none"
             THEN /\ ret.err = "none"
                  /\ Name("m", last.f) \in DOMAIN values["m"]
                  /\ values["m"][Name("m", last.f)] = r.values[Name("m", last.f)]
             ELSE ret.err = "BadValueError"
    /\ last.op = "read" =>
          ret.v = get_value(Prop("m", last.f), Name("m", last.f), values["m"]).v

\* what a field's validator makes of a value: "lower" lower-cases a text,
\* and a field without validator keeps the value
C3_Image(prop, value) ==
    IF prop.validator = "lower" /\ value.k = "atom"
    THEN Atom([value.s[1] EXCEPT !.txt = Lower(value.s[1].txt)])
    ELSE value

RECURSIVE HasRepeatedField(_)
HasRepeatedField(cls) ==
    \E f \in Fields(cls) :
        \/ ClassFields[cls][f].repeated
        \/ /\ ClassFields[cls][f].type = "Structured"
           /\ HasRepeatedField(ClassFields[cls][f].modelclass)

\* C4: declaring a repeated structured field over a class that has a
\* repeated field, directly or transitively, raises at the field's
\* construction, whatever was constructed before.
C4_RepeatedOfRepeatedRefused ==
    (/\ ctor.err # "pending"
     /\ ctor.args.type = "Structured"
     /\ ctor.args.repeated
     /\ HasRepeatedField(ctor.args.modelclass)) => ctor.err # "none"

\* C5: finalizing an auto_now_add field stores the current instant when
\* the field has no value and leaves a value it has untouched; either way
\* the pass completes and the field has a value after it.
C5_AutoNowAdd ==
    (/\ last.op = "put"
     /\ Prop("p", last.f).auto_now_add
     /\ ~Prop("p", last.f).auto_now) =>
        /\ ret.err = "none"
        /\ Name("p", last.f) \in DOMAIN values["p"]
        /\ lastset["p"][last.f].k \notin {"unset", "deleted"} =>
              values["p"][Name("p", last.f)] = lastset["p"][last.f]

\* the instant of the clock as each temporal variant keeps it
C6_Stamp(type, clock) ==
    CASE type = "DateTime" -> DateTime(clock \div TicksPerDay, clock % TicksPerDay)
      [] type = "Date"     -> Date(clock \div TicksPerDay)
      [] type = "Time"     -> Time(clock % TicksPerDay)

\* C6: every finalization of an auto_now field stores the current instant
\* (its date, its time of day) under the field's name, whether the field
\* was absent, null or set, and changes nothing else of the entity.
C6_AutoNow ==
    [][\A f \in Fields("Stamped") :
          (Prop("p", f).auto_now /\ PrepareForPut("p", f)) =>
              /\ ret'.err = "none"
              /\ values'["p"] = Put(values["p"], Name("p", f),
                                    Atom(C6_Stamp(Prop("p", f).type, now)))]_vars

C6_Witness ==
    /\ last = Call("put", "updated", None)
    /\ lastset["p"]["updated"] = Atom(DateTime(0, 0))
    /\ now = 1
    /\ values["p"]["updated"] = Atom(DateTime(0, 1))

\* C7: a constructor given repeated with required or with a non-null
\* default raises, so does a temporal one given repeated with auto_now or
\* auto_now_add, and no descriptor that was built has repeated with
\* required or a non-null default.
C7_RepeatedExclusive ==
    ctor.err # "pending" =>
        /\ (ctor.args.repeated /\ (ctor.args.required \/ ctor.args.default # None))
              => ctor.err = "ValueError"
        /\ (/\ ctor.args.type \in TemporalTypes
            /\ ctor.args.repeated
            /\ (ctor.args.auto_now \/ ctor.args.auto_now_add))
              => ctor.err = "ValueError"
        /\ ctor.err = "none" =>
              ~(ctor.prop.repeated
                /\ (ctor.prop.required \/ ctor.prop.default # None))

C7_Witness ==
    /\ ctor.args.type = "Structured"
    /\ ctor.args.repeated
    /\ ctor.args.required
    /\ ctor.err = "ValueError"

\* a stored value is null or in the choices, every element of a list is
C8_Member(prop, v) ==
    \/ v = None
    \/ v.k = "atom" /\ v.s[1] \in prop.choices.s
    \/ v.k = "list" /\ \A i \in 1..Len(v.s) : v.s[i] \in prop.choices.s

\* the value, or an element of the sequence, is not in the choices once
\* shallow validation and the validator have run
C8_Outside(prop, arg) ==
    \E x \in (IF prop.repeated /\ arg.k = "list"
              THEN {arg.s[i] : i \in 1..Len(arg.s)}
              ELSE IF ~prop.repeated /\ arg.k = "atom" THEN {arg.s[1]} ELSE {}) :
        \E r \in {validate_before_choices(prop, Atom(x))} :
            r.err = "none" /\ r.v.s[1] \notin prop.choices.s

\* C8: a set (or a constructor keyword) of a value outside the field's
\* choices raises a bad-value fault, and the stored value of a field with
\* choices is always absent, null or in the choices.
C8_ChoicesHold ==
    /\ \A f \in Fields("TestModel") :
          (/\ Prop("m", f).choices.k # "none"
           /\ NameAfterFixUp("m", f) \in DOMAIN values["m"])
              => C8_Member(Prop("m", f), values["m"][NameAfterFixUp("m", f)])
    /\ (/\ last.op \in {"set", "new"}
        /\ last.f # NoField
        /\ Prop("m", last.f).choices.k # "none"
        /\ C8_Outside(Prop("m", last.f), last.arg)) => ret.err = "BadValueError"

C8_Witness ==
    /\ last = Call("set", "total", Atom(Str("d")))
    /\ ret.err = "BadValueError"
    /\ "sum" \in DOMAIN values["m"]
    /\ values["m"]["sum"] = Atom(Str("a"))

(***************************************************************************)
(* Properties of the equality filter.                                      *)
(***************************************************************************)
\* the non-repeated fields of a nested class that carry a non-null value
C9_Carried(cls, vals) ==
    {f \in Fields(cls) :
        /\ ~ClassFields[cls][f].repeated
        /\ fix_up_name(ClassFields[cls][f].name, f) \in DOMAIN vals
        /\ vals[fix_up_name(ClassFields[cls][f].name, f)] # None}

\* a repeated field of the nested class carries one value or more
C9_RepeatedCarried(cls, vals) ==
    \E f \in Fields(cls) :
        /\ ClassFields[cls][f].repeated
        /\ fix_up_name(ClassFields[cls][f].name, f) \in DOMAIN vals
        /\ vals[fix_up_name(ClassFields[cls][f].name, f)] # None
        /\ Len(vals[fix_up_name(ClassFields[cls][f].name, f)].s) > 0

C9_Dotted(field, cls, fs) ==
    {field \o "." \o fix_up_name(ClassFields[cls][f].name, f) : f \in fs}

\* C9: an equality filter on the non-repeated field home, for a nested
\* value whose non-repeated fields carry k non-null values, is k equality
\* conditions on the dotted names, the one condition itself when k = 1 and
\* their conjunction when k >= 2; k = 0, or a repeated nested field that
\* carries a value, is a bad-filter fault.
C9_EqualityFilter ==
    (query.f = "home" /\ query.op = "=" /\ query.value.k = "instance") =>
        IF C9_RepeatedCarried("Leaf", query.value.vals)
           \/ C9_Carried("Leaf", query.value.vals) = {}
        THEN result.err = "BadFilterError"
        ELSE /\ result.err = "none"
             /\ Len(result.nodes) = Cardinality(C9_Carried("Leaf", query.value.vals))
             /\ \A i \in 1..Len(result.nodes) :
                   result.nodes[i].kind = "FilterNode" /\ result.nodes[i].op = "="
             /\ {result.nodes[i].name : i \in 1..Len(result.nodes)}
                   = C9_Dotted("home", "Leaf", C9_Carried("Leaf", query.value.vals))
             /\ result.kind = IF Len(result.nodes) = 1 THEN "FilterNode"
                              ELSE "ConjunctionNode"

\* C10: an equality filter on the repeated field addresses, for a nested
\* value that yields one condition or more, is those conditions and a
\* post-filter over exactly their dotted names.
C10_PostFilter ==
    (/\ query.f = "addresses" /\ query.op = "=" /\ query.value.k = "instance"
     /\ C9_Carried("Address", query.value.vals) # {}) =>
        /\ result.err = "none"
        /\ Len(result.nodes) = 1 + Cardinality(C9_Carried("Address", query.value.vals))
        /\ result.nodes[Len(result.nodes)].kind = "PostFilterNode"
        /\ {result.nodes[Len(result.nodes)].keys[i] :
               i \in 1..Len(result.nodes[Len(result.nodes)].keys)}
              = C9_Dotted("addresses", "Address",
                          C9_Carried("Address", query.value.vals))
        /\ \A i \in 1..(Len(result.nodes) - 1) :
              /\ result.nodes[i].kind = "FilterNode"
              /\ result.nodes[i].name = result.nodes[Len(result.nodes)].keys[i]

(***************************************************************************)
(* SpecToken: a token that need not come from the encoder is decoded,      *)
(* either by get_key_from_resource_id itself or through                    *)
(* get_entity_by_resource_id.  Tokens are texts over the base64 alphabet:  *)
(* the unpadded encodings of short byte strings, and those with one more   *)
(* character (a length no padding repairs).                                *)
(***************************************************************************)
\* longest decoded text a token stands for
MaxText == 3

\* 'K', SEPARATOR, INTPREFIX, '1', 'x'
TokenBytes == {75, SEPARATOR, INTPREFIX, 49, 120}

TokenTexts == UNION {[1..n -> TokenBytes] : n \in 0..MaxText}

Unpadded(t) == SelectSeq(t, LAMBDA ch : ch # PAD)

Tokens ==
    {Unpadded(b64encode(b)) : b \in TokenTexts}
    \cup {Unpadded(b64encode(b)) \o <<1>> : b \in {x \in TokenTexts : Len(x) % 3 = 0}}

ExpectedKinds == {<<75>>, <<74>>}

\* the errors the except clause of get_entity_by_resource_id names; every
\* error of the model is one of them or a subclass (line 115)
Caught == {"ValueError", "AttributeError", "IndexError", "TypeError"}

\* the try block of get_entity_by_resource_id (lines 107-117) once the key
\* function has returned r: the kind of a key is the kind of its last pair
entity_by_resource_id_result(expected_kind, r) ==
    IF r.err \in Caught
    THEN [err |-> "InvalidIdException", pairs |-> NoKey]
    ELSE IF r.err # "none" THEN r
    ELSE IF r.pairs[Len(r.pairs)][1] # expected_kind
    THEN [err |-> "InvalidIdException", pairs |-> NoKey]
    ELSE r

\* get_entity_by_resource_id: the result is the key whose entity is fetched
get_entity_by_resource_id(expected_kind, rid) ==
    IF Len(rid) = 0 THEN [err |-> "ValueError", pairs |-> NoKey]
    ELSE entity_by_resource_id_result(expected_kind, get_key_from_resource_id(rid))

InitToken ==
    /\ key = NoKey
    /\ resource_id \in Tokens
    /\ decoded = NotDecoded
    /\ cstage = "token"
    /\ InitClasses
    /\ InitEntities
    /\ InitFilter
    /\ now = 0
    /\ ctor = NoCtor
    /\ InitRest

DecodeToken ==
    /\ cstage = "token"
    /\ decoded' = get_key_from_resource_id(resource_id)
    /\ cstage' = "direct"
    /\ UNCHANGED <<key, resource_id, classVars, entityVars, callVars, now, ctor, filterVars, restVars>>

GetEntity(expected_kind) ==
    /\ cstage = "token"
    /\ decoded' = get_entity_by_resource_id(expected_kind, resource_id)
    /\ cstage' = "entity"
    /\ UNCHANGED <<key, resource_id, classVars, entityVars, callVars, now, ctor, filterVars, restVars>>

NextToken ==
    \/ DecodeToken
    \/ \E k \in ExpectedKinds : GetEntity(k)

SpecToken == InitToken /\ [][NextToken]_vars

\* what the token decodes to once its padding is restored
TokenText(t) ==
    b64decode(IF Len(t) % 4 # 0 THEN t \o [i \in 1..(4 - (Len(t) % 4)) |-> PAD] ELSE t)

WrongPadding(t) == TokenText(t).err # "none"

EmptyFragment(bits) == \E i \in 1..Len(bits) : Len(bits[i]) = 0

NonIntegerRemainder(bits) ==
    \E i \in 1..Len(bits) :
        /\ Len(bits[i]) > 0
        /\ bits[i][1] = INTPREFIX
        /\ int_of_text(Tail(bits[i])).err # "none"

OddFragments(bits) == Len(bits) % 2 = 1

Malformed(t) ==
    \/ WrongPadding(t)
    \/ /\ ~WrongPadding(t)
       /\ \/ EmptyFragment(Split(TokenText(t).v))
          \/ NonIntegerRemainder(Split(TokenText(t).v))
          \/ OddFragments(Split(TokenText(t).v))

\* C11: decoding a malformed token fails with InvalidIdException and with
\* no other error, whether get_key_from_resource_id is called directly or
\* reached through get_entity_by_resource_id.
C11_InvalidId ==
    (cstage \in {"direct", "entity"} /\ Malformed(resource_id))
        => decoded.err = "InvalidIdException"

\* what a read of an absent field is to return: the declared default, an
\* empty sequence when the field is repeated
AbsentRead(prop) == IF prop.repeated THEN List(<<>>) ELSE prop.default

\* a step that is the call _delete_value(m, f) takes f's entry out of the
\* store, leaves the other entries alone and raises nothing
C12_Removes(f) ==
    (last' = Call("delete", f, None) /\ lastset'["m"][f] = Deleted) =>
        /\ DOMAIN values'["m"] = DOMAIN values["m"] \ {Name("m", f)}
        /\ \A n \in DOMAIN values'["m"] : values'["m"][n] = values["m"][n]
        /\ ret' = Ok(None)

\* a step that is the call _get_value(m, f) on a deleted field returns the
\* default, or an empty sequence
C12_ReadsAbsent(f) ==
    (lastset["m"][f] = Deleted /\ last' = Call("get", f, None)) =>
        ret' = Ok(AbsentRead(Prop("m", f)))

GetEntities == {"m", "q"}

GetInputs ==
    [title |-> {Atom(Str("cheese"))}, total |-> {Atom(Str("a"))},
     jive |-> {List(<<Str("a")>>)},
     home |-> {None}, addresses |-> {List(<<>>)}, hidden |-> {None}]

\* entity.f.append(x), f repeated: the list _get_value returns is the one it
\* finds or puts in entity._values, and it is changed in place
ListAppend(e, f, x) ==
    /\ alive[e]
    /\ Prop(e, f).repeated
    /\ f \notin DOMAIN attrs[e]
    /\ \E r \in {property_get_value(Prop(e, f), Name(e, f), values[e])} :
           /\ r.err = "none"
           /\ Len(r.v.s) < MaxLen
           /\ values' = [values EXCEPT ![e] =
                            Put(r.values, Name(e, f), List(Append(r.v.s, x)))]
    /\ ret' = Ok(None)
    /\ last' = Call("append", f, Atom(x))
    /\ UNCHANGED <<alive, attrs, lastset, classVars, codecVars, now, ctor, filterVars, restVars>>

NextGet ==
    \E e \in GetEntities : \E f \in Fields(EntityClass[e]) :
        \/ Construct(e, NoField, None)
        \/ \E v \in GetInputs[f] : SetValue(e, f, v)
        \/ GetValue(e, f)
        \/ DeleteValue(e, f)
        \/ ListAppend(e, f, Str("s"))

SpecGet == Init /\ [][NextGet]_vars

\* C13: _get_value on a field absent from the store returns an empty
\* sequence when the field is repeated, kept in the store of that instance
\* only (appending to it changes no other instance's store), and the
\* declared default, None when there is none, when the field is
\* single-valued, whatever the type of the field.
C13_AbsentGet ==
    [][\A e \in GetEntities : \A f \in Fields(EntityClass[e]) :
          /\ (alive[e] /\ Name(e, f) \notin DOMAIN values[e]
                /\ last' = Call("get", f, None)) =>
                /\ ret' = Ok(AbsentRead(Prop(e, f)))
                /\ Prop(e, f).repeated => values'[e][Name(e, f)] = List(<<>>)
                /\ \A o \in Entities \ {e} : values'[o] = values[o]
          /\ (alive[e] /\ last' = Call("append", f, Atom(Str("s")))) =>
                \A o \in Entities \ {e} : values'[o] = values[o]]_vars

\* the storage name a nested field is declared with: its name option, or
\* the name it is bound to in the class body
DeclaredName(cls, a) ==
    IF ClassFields[cls][a].name = NoName THEN a ELSE ClassFields[cls][a].name

\* C14: asking a structured field f for the nested field a gives a copy
\* named "<f's name>.<a's storage name>" and leaves the nested descriptor
\* as it is; the copy is cached, so a later request answers with the same
\* copy; a name that is no nested field raises AttributeError and caches
\* nothing.
C14_Sub ==
    [][\A f \in Fields("Person") : \A a \in SubNames[f] :
          last' = Call("sub", f, Atom(Str(a))) =>
              IF a \in Fields(ClassFields["Person"][f].modelclass)
              THEN /\ ret' = Ok(Atom(Str(f \o "." \o
                              DeclaredName(ClassFields["Person"][f].modelclass, a))))
                   /\ a \in DOMAIN subprops'["Person"][f]
                   /\ subprops'["Person"][f][a].name
                         = f \o "." \o DeclaredName(ClassFields["Person"][f].modelclass, a)
                   /\ a \in DOMAIN subprops["Person"][f] => subprops' = subprops
                   /\ UNCHANGED classVars
              ELSE /\ ret' = Raise("AttributeError")
                   /\ subprops' = subprops]_vars

(***************************************************************************)
(* SpecDb: a value is given to _db_set_value; what it set is read back by  *)
(* _db_get_value, as is a protocol buffer value that holds no integer.     *)
(***************************************************************************)
DbYears == {1969, 1970, 1972, 2020}

DbMonths == {1, 2, 3, 12}

DbDatetimes ==
    {datetime(y, mo, d, h, mi, sec, us) :
        y \in DbYears, mo \in DbMonths, d \in {1, 28}, h \in {0, 23},
        mi \in {0, 59}, sec \in {0, 59}, us \in {0, 999999}}
    \cup {datetime(y, 2, 29, 0, 0, 0, 1) : y \in {1972, 2020}}

\* a date that is no datetime, and a datetime with a tzinfo
DbOthers ==
    {[datetime(2020, 1, 1, 0, 0, 0, 0) EXCEPT !.ty = "date"],
     [datetime(2020, 1, 1, 0, 0, 0, 0) EXCEPT !.tz = "aware"]}

InitDbValue ==
    /\ IdleCodec
    /\ InitClasses
    /\ InitEntities
    /\ InitFilter
    /\ now = 0
    /\ ctor = NoCtor
    /\ dt_value \in DbDatetimes \cup DbOthers
    /\ int64value = NoInt64
    /\ dt_read = NoDatetime
    /\ InitConv
    /\ InitRace
    /\ InitFm
    /\ InitSet

DbSetValue ==
    /\ last = NoCall
    /\ int64value' = db_set_value(dt_value).v
    /\ ret' = IF db_set_value(dt_value).err = "none" THEN Ok(None)
              ELSE Raise(db_set_value(dt_value).err)
    /\ last' = Call("_db_set_value", NoField, None)
    /\ UNCHANGED <<dt_value, dt_read, codecVars, classVars, entityVars, now, ctor, filterVars,
                   restButDb>>

DbGetValue ==
    /\ last.op \in {"", "_db_set_value"}
    /\ dt_read' = db_get_value(int64value)
    /\ ret' = Ok(None)
    /\ last' = Call("_db_get_value", NoField, None)
    /\ UNCHANGED <<dt_value, int64value, codecVars, classVars, entityVars, now, ctor,
                   filterVars, restButDb>>

NextDb == DbSetValue \/ DbGetValue

SpecDb == InitDbValue /\ [][NextDb]_vars

\* the decimal digits of the integer hi * 1000000 + lo, hi >= 0
Int64Digits(v) ==
    IF v.hi = 0 THEN Digits(v.lo)
    ELSE Digits(v.hi) \o Tail(Digits(1000000 + v.lo))

\* the integer the formula of the claim gives for a naive datetime: the
\* days, seconds and microseconds between the epoch and it
C15_Micros(t) ==
    Int64((toordinal(t) - toordinal(EPOCH)) * 86400 + second_of_day(t), t.microsecond)

\* C15: _db_set_value turns a naive UTC datetime into the integer number
\* of microseconds since the epoch, _db_get_value turns the integer into
\* the epoch plus that many microseconds, and reading back what was set
\* gives the datetime that was set; 2020-01-01T00:00:00 is
\* 1577836800000000.
C15_Codec ==
    /\ (last.op = "_db_set_value" /\ dt_value \in DbDatetimes) =>
          /\ ret = Ok(None)
          /\ int64value = C15_Micros(dt_value)
          /\ dt_value = datetime(2020, 1, 1, 0, 0, 0, 0) =>
                /\ int64value = Int64(1577836800, 0)
                /\ Int64Digits(int64value)
                      = <<49, 53, 55, 55, 56, 51, 54, 56, 48, 48, 48, 48, 48, 48, 48, 48>>
    /\ (last.op = "_db_get_value" /\ int64value.has) => dt_read = dt_value
    /\ (last.op = "_db_get_value" /\ int64value = Int64(1577836800, 0)) =>
          dt_read = datetime(2020, 1, 1, 0, 0, 0, 0)

\* a datetime before the epoch, with microseconds, was set and read back
C15_Witness ==
    /\ last.op = "_db_get_value"
    /\ dt_value = datetime(1969, 12, 28, 23, 59, 59, 999999)
    /\ int64value = Int64(0 - 259201, 999999)
    /\ dt_read = dt_value

(***************************************************************************)
(* SpecConv: a value is given to a text, JSON, date or time field; it is   *)
(* validated, converted to the base type and converted back.               *)
(***************************************************************************)
\* longest text and longest JSON list converted
MaxConv == 2

ConvBytes == {97, 195, 169, 255}
ConvCodePoints == {97, 233}

ConvInputs ==
    [String |-> {Atom(Bytes(b)) : b \in SeqsUpTo(ConvBytes, MaxConv)}
                \cup {Atom(Unicode(u)) : u \in SeqsUpTo(ConvCodePoints, MaxConv)}
                \cup {Atom(IntAtom("7"))},
     Json   |-> {Atom(JInt(n)) : n \in {0, 7}}
                \cup {Atom(JList(q)) : q \in SeqsUpTo({1, 2}, MaxConv)}
                \cup {Atom(JTuple(q)) : q \in SeqsUpTo({1, 2}, MaxConv)},
     Date   |-> {Atom(Date(d)) : d \in 0..1}
                \cup {Atom(DateTime(d, t)) : d \in 0..1, t \in 0..(TicksPerDay - 1)}
                \cup {Atom(Time(0))},
     Time   |-> {Atom(Time(t)) : t \in 0..(TicksPerDay - 1)} \cup {Atom(Date(0))},
     Chain  |-> {Atom(Str("A")), Atom(Str("a")), Atom(Str("cheese")), Atom(IntAtom("7"))}]

InitConvValue ==
    /\ IdleCodec
    /\ InitClasses
    /\ InitEntities
    /\ InitFilter
    /\ now = 0
    /\ ctor = NoCtor
    /\ InitDb
    /\ InitRace
    /\ InitFm
    /\ InitSet
    /\ conv_type \in DOMAIN ConvInputs
    /\ user_value \in ConvInputs[conv_type]
    /\ base_value = Pending
    /\ back_value = Pending
    /\ conv_step = "value"
    /\ shallow_list = <<>>

convFrame == <<codecVars, classVars, entityVars, now, ctor, filterVars, restButConv>>

\* prop._call_shallow_validation(value)
ShallowValidate ==
    /\ conv_step = "value"
    /\ shallow_list' = shallow_methods(conv_type)
    /\ ret' = apply_list(shallow_methods(conv_type), user_value)
    /\ conv_step' = IF ret'.err = "none" THEN "valid" ELSE "refused"
    /\ last' = Call("_call_shallow_validation", NoField, user_value)
    /\ UNCHANGED <<conv_type, user_value, base_value, back_value, convFrame>>

ToBaseType ==
    /\ conv_step = "valid"
    /\ base_value' = call_to_base_type(conv_type, user_value)
    /\ conv_step' = "base"
    /\ last' = Call("_to_base_type", NoField, user_value)
    /\ UNCHANGED <<conv_type, user_value, back_value, shallow_list, ret, convFrame>>

FromBaseType ==
    /\ conv_step = "base"
    /\ base_value.err = "none"
    /\ back_value' = call_from_base_type(conv_type, base_value.v)
    /\ conv_step' = "back"
    /\ last' = Call("_from_base_type", NoField, base_value.v)
    /\ UNCHANGED <<conv_type, user_value, base_value, shallow_list, ret, convFrame>>

NextConv == ShallowValidate \/ ToBaseType \/ FromBaseType

SpecConv == InitConvValue /\ [][NextConv]_vars

\* a == b as Python 2 has it for the values converted: a str and a unicode
\* are equal when both are the same ASCII text, values of different types
\* (a list and a tuple, a date and a datetime) are not
PyEq(a, b) ==
    \/ a = b
    \/ /\ a.k = "atom" /\ b.k = "atom"
       /\ {a.s[1].ty, b.s[1].ty} = {"bytes", "unicode"}
       /\ a.s[1].txt = b.s[1].txt
       /\ IsAscii(a.s[1].txt)

\* C16: for a text, JSON, date or time field and a value shallow validation
\* accepts, converting to the base type and back gives the value; a stage
\* that returns None leaves the value as it is (the text stage, given a
\* str).
C16_RoundTrip ==
    conv_type \in {"String", "Json", "Date", "Time"} =>
        /\ conv_step = "base" => base_value.err = "none"
        /\ (conv_step \in {"base", "back"} /\ conv_type = "String"
              /\ user_value.s[1].ty = "bytes") => base_value = Ok(user_value)
        /\ conv_step = "back" =>
              /\ back_value.err = "none"
              /\ PyEq(back_value.v, user_value)

\* C17: once _fix_up_properties has run for a class, its _has_repeated is
\* true exactly when one of its fields is repeated or is a structured field
\* over a class that has a repeated field, directly or transitively, in
\* whatever order the classes were instantiated.
C17_HasRepeated ==
    \A c \in DeclClasses :
        properties[c] # NoMap => (has_repeated[c] <=> HasRepeatedField(c))

(***************************************************************************)
(* SpecRace: threads construct instances of one class while a reader       *)
(* looks at cls._properties.  Model.__init__ runs _fix_up_properties       *)
(* twice; each run rebinds cls._properties to an empty dictionary and then *)
(* visits the fields one by one, in the order of set(dir(cls)).            *)
(***************************************************************************)
\* calls of _find_methods per thread
MaxFinds == 2

\* instances a thread constructs
MaxInstances == 2

RaceClass == "Leaf"

raceFrame == <<codecVars, entityVars, callVars, now, ctor, filterVars, restButRace>>

\* a thread enters Model.__init__
NewInstance(t) ==
    /\ fix_pc[t].at \in {"idle", "done"}
    /\ fix_pc[t].n < MaxInstances
    /\ fix_pc' = [fix_pc EXCEPT ![t] = [at |-> "new", n |-> fix_pc[t].n + 1]]
    /\ UNCHANGED <<fix_todo, registered, seen, classVars, raceFrame>>

\* line 851: cls._properties = {}, in the first run (line 785) and, after
\* _set_attributes, in the second (line 791)
FixUpClear(t) ==
    /\ fix_pc[t].at \in {"new", "attrs"}
    /\ properties' = [properties EXCEPT ![RaceClass] = EmptyDict]
    /\ fix_todo' = [fix_todo EXCEPT ![t] = Fields(RaceClass)]
    /\ fix_pc' = [fix_pc EXCEPT ![t].at = IF fix_pc[t].at = "new" THEN "fix1" ELSE "fix2"]
    /\ UNCHANGED <<has_repeated, prop_name, prop_code_name, registered, seen, raceFrame>>

\* lines 855-868 for one name of dir(cls) that is a field
FixUpAttr(t, f) ==
    /\ fix_pc[t].at \in {"fix1", "fix2"}
    /\ f \in fix_todo[t]
    /\ prop_code_name' = [prop_code_name EXCEPT ![RaceClass][f] = f]
    /\ prop_name' = [prop_name EXCEPT ![RaceClass][f] =
                        fix_up_name(prop_name[RaceClass][f], f)]
    /\ has_repeated' = [has_repeated EXCEPT ![RaceClass] =
                           \/ has_repeated[RaceClass]
                           \/ ClassFields[RaceClass][f].repeated
                           \/ /\ ClassFields[RaceClass][f].type = "Structured"
                              /\ has_repeated[ClassFields[RaceClass][f].modelclass]]
    /\ properties' = [properties EXCEPT ![RaceClass] =
                         Put(properties[RaceClass],
                             fix_up_name(prop_name[RaceClass][f], f), f)]
    /\ fix_todo' = [fix_todo EXCEPT ![t] = fix_todo[t] \ {f}]
    /\ UNCHANGED <<fix_pc, registered, seen, raceFrame>>

\* the loop is over: the first run is followed by _set_attributes (no
\* keyword), the second ends __init__
FixUpDone(t) ==
    /\ fix_pc[t].at \in {"fix1", "fix2"}
    /\ fix_todo[t] = {}
    /\ fix_pc' = [fix_pc EXCEPT ![t].at = IF fix_pc[t].at = "fix1" THEN "attrs" ELSE "done"]
    /\ registered' = TRUE
    /\ UNCHANGED <<fix_todo, seen, classVars, raceFrame>>

\* another thread reads cls._properties, as StructuredProperty.__getattr__
\* does (line 437)
ReadProperties ==
    /\ seen' = [registered |-> registered, map |-> properties[RaceClass]]
    /\ UNCHANGED <<fix_pc, fix_todo, registered, classVars, raceFrame>>

InitRaceThreads ==
    /\ IdleCodec
    /\ InitClasses
    /\ InitEntities
    /\ InitFilter
    /\ now = 0
    /\ ctor = NoCtor
    /\ InitDb
    /\ InitConv
    /\ InitFm
    /\ InitSet
    /\ fix_pc = [t \in Threads |-> [at |-> "idle", n |-> 0]]
    /\ fix_todo = [t \in Threads |-> {}]
    /\ registered = FALSE
    /\ seen = NotSeen

NextRace ==
    \/ \E t \in Threads :
          \/ NewInstance(t)
          \/ FixUpClear(t)
          \/ \E f \in Fields(RaceClass) : FixUpAttr(t, f)
          \/ FixUpDone(t)
    \/ ReadProperties

SpecRace == InitRaceThreads /\ [][NextRace]_vars

\* the storage names of the declared fields of a class
DeclaredNames(cls) == {DeclaredName(cls, f) : f \in Fields(cls)}

\* C18: once a class is registered, cls._properties holds every declared
\* field in every reachable state, and a reader never sees an empty or
\* partial map while other threads construct instances.
C18_MapComplete ==
    /\ registered => DOMAIN properties[RaceClass] = DeclaredNames(RaceClass)
    /\ seen.registered => DOMAIN seen.map = DeclaredNames(RaceClass)

\* the _validate method of a class, as _find_methods lists it
ValidateOf(c) == [cls |-> c, name |-> "_validate"]

\* C19: shallow validation applies the _validate methods of the classes of
\* the MRO, most specific first, up to and including the first class that
\* also defines _to_base_type, and no _to_base_type: for A -> B -> C ->
\* Property with A defining _validate only and B and C both, A's _validate
\* and then B's run.  A method that returns None keeps the value, another
\* result replaces it.
C19_Shallow ==
    conv_step \in {"valid", "refused"} =>
        /\ conv_type = "Chain" => shallow_list = <<ValidateOf("A"), ValidateOf("B")>>
        /\ conv_type = "String" => shallow_list = <<ValidateOf("TextProperty")>>
        /\ conv_type = "Json" => shallow_list = <<ValidateOf("JsonProperty")>>
        /\ conv_type = "Date" => shallow_list = <<ValidateOf("DateProperty")>>
        /\ conv_type = "Time" => shallow_list = <<ValidateOf("TimeProperty")>>
        /\ (conv_type = "Chain" /\ user_value = Atom(Str("A"))) =>
              ret = Ok(Atom(Str("a")))
        /\ (conv_type = "Chain" /\ user_value \in {Atom(Str("a")), Atom(Str("cheese"))}) =>
              ret = Ok(user_value)
        /\ (conv_type = "Chain" /\ user_value = Atom(IntAtom("7"))) =>
              ret = Raise("BadValueError")

\* A's _validate replaced "A", B's kept the replacement, C's did not run
C19_Witness ==
    /\ conv_type = "Chain"
    /\ conv_step = "valid"
    /\ user_value = Atom(Str("A"))
    /\ shallow_list = <<ValidateOf("A"), ValidateOf("B")>>
    /\ ret = Ok(Atom(Str("a")))

\* ---------------------------------------------------------------------
\* Property._find_methods called from several threads (models.py 137-168)

\* the field type whose cache the threads share
FindType == "Json"

\* the name tuples the code calls _find_methods with, and the reverse flag
\* each is always used with (the docstring, lines 141-142)
FindNames == {<<"_validate", "_to_base_type">>, <<"_from_base_type">>}

FindReverse(names) == names = <<"_from_base_type">>

\* one key for every tuple of names
cache_key_shared(names) == <<>>

\* cache.get(names), cache[names] = methods: the key is the tuple of names
cache_key(names) == names

FindKeys == FindNames \cup {<<>>}

EmptyCache == [k \in FindKeys |-> 0]

\* what one call alone returns
find_methods_alone(type, names, reverse) ==
    IF reverse THEN Reverse(find_methods(type, names))
    ELSE find_methods(type, names)

fmFrame == <<codecVars, classVars, entityVars, callVars, now, ctor, filterVars,
             restButFm>>

\* _find_methods(*names, reverse=...) is entered
FindCall(t, names) ==
    /\ fm_call[t].at = "idle"
    /\ fm_call[t].n < MaxFinds
    /\ fm_call' = [fm_call EXCEPT ![t] =
                      [at |-> "read", names |-> names,
                       reverse |-> FindReverse(names), cache |-> 0,
                       methods |-> 0, n |-> fm_call[t].n + 1]]
    /\ UNCHANGED <<fm_cache, fm_dicts, fm_lists, fm_ret, fmFrame>>

\* line 152: cache = cls.__dict__.get('_find_methods_cache')
FindReadCache(t) ==
    /\ fm_call[t].at = "read"
    /\ fm_call' = [fm_call EXCEPT ![t].at = "test", ![t].cache = fm_cache]
    /\ UNCHANGED <<fm_cache, fm_dicts, fm_lists, fm_ret, fmFrame>>

\* lines 153 and 157-158: "if cache:" is false for None and for an empty
\* dictionary, and then a new dictionary is bound to the class
FindTest(t) ==
    /\ fm_call[t].at = "test"
    /\ IF fm_call[t].cache # 0 /\ fm_dicts[fm_call[t].cache] # EmptyCache
       THEN /\ fm_call' = [fm_call EXCEPT ![t].at = "get"]
            /\ UNCHANGED <<fm_cache, fm_dicts>>
       ELSE /\ fm_dicts' = Append(fm_dicts, EmptyCache)
            /\ fm_cache' = Len(fm_dicts) + 1
            /\ fm_call' = [fm_call EXCEPT ![t].at = "build",
                                          ![t].cache = Len(fm_dicts) + 1]
    /\ UNCHANGED <<fm_lists, fm_ret, fmFrame>>

\* lines 154-156: hit = cache.get(names), returned unless it is None
FindGet(t) ==
    /\ fm_call[t].at = "get"
    /\ IF fm_dicts[fm_call[t].cache][cache_key(fm_call[t].names)] # 0
       THEN /\ fm_ret' = [fm_ret EXCEPT ![t] =
                  [names |-> fm_call[t].names,
                   list |-> fm_dicts[fm_call[t].cache][cache_key(fm_call[t].names)]]]
            /\ fm_call' = [fm_call EXCEPT ![t].at = "idle"]
       ELSE /\ fm_call' = [fm_call EXCEPT ![t].at = "build"]
            /\ UNCHANGED fm_ret
    /\ UNCHANGED <<fm_cache, fm_dicts, fm_lists, fmFrame>>

\* lines 159-164: a new list, filled class by class along the MRO
FindBuild(t) ==
    /\ fm_call[t].at = "build"
    /\ fm_lists' = Append(fm_lists, find_methods(FindType, fm_call[t].names))
    /\ fm_call' = [fm_call EXCEPT ![t].methods = Len(fm_lists) + 1,
                                  ![t].at = "reverse"]
    /\ UNCHANGED <<fm_cache, fm_dicts, fm_ret, fmFrame>>

\* lines 165-166: methods.reverse() changes the list in place
FindReverseList(t) ==
    /\ fm_call[t].at = "reverse"
    /\ fm_lists' = IF fm_call[t].reverse
                   THEN [fm_lists EXCEPT ![fm_call[t].methods] =
                            Reverse(fm_lists[fm_call[t].methods])]
                   ELSE fm_lists
    /\ fm_call' = [fm_call EXCEPT ![t].at = "store"]
    /\ UNCHANGED <<fm_cache, fm_dicts, fm_ret, fmFrame>>

\* line 167: cache[names] = methods, in the dictionary this call holds
FindStore(t) ==
    /\ fm_call[t].at = "store"
    /\ fm_dicts' = [fm_dicts EXCEPT ![fm_call[t].cache][cache_key(fm_call[t].names)] =
                       fm_call[t].methods]
    /\ fm_call' = [fm_call EXCEPT ![t].at = "return"]
    /\ UNCHANGED <<fm_cache, fm_lists, fm_ret, fmFrame>>

\* line 168: return methods
FindReturn(t) ==
    /\ fm_call[t].at = "return"
    /\ fm_ret' = [fm_ret EXCEPT ![t] =
                     [names |-> fm_call[t].names, list |-> fm_call[t].methods]]
    /\ fm_call' = [fm_call EXCEPT ![t].at = "idle"]
    /\ UNCHANGED <<fm_cache, fm_dicts, fm_lists, fmFrame>>

InitFind ==
    /\ IdleCodec
    /\ InitClasses
    /\ InitEntities
    /\ InitFilter
    /\ last = NoCall
    /\ ret = Ok(None)
    /\ now = 0
    /\ ctor = NoCtor
    /\ InitRest

NextFind ==
    \/ \E t \in Threads, names \in FindNames : FindCall(t, names)
    \/ \E t \in Threads : FindReadCache(t)
    \/ \E t \in Threads : FindTest(t)
    \/ \E t \in Threads : FindGet(t)
    \/ \E t \in Threads : FindBuild(t)
    \/ \E t \in Threads : FindReverseList(t)
    \/ \E t \in Threads : FindStore(t)
    \/ \E t \in Threads : FindReturn(t)

SpecFind == InitFind /\ [][NextFind]_vars

\* C20: whatever the interleaving of the threads' calls of _find_methods on
\* one field type, with the same names or with different names, every call
\* returns the list that a call alone returns for its names, a later call
\* included; and a list in the cache of the class is out of the hands of
\* the call that made it, so it is that list too.
C20_CacheRace ==
    /\ \A t \in Threads :
          fm_ret[t] # NoReturn =>
              fm_lists[fm_ret[t].list] =
                  find_methods_alone(FindType, fm_ret[t].names,
                                     FindReverse(fm_ret[t].names))
    /\ \A names \in FindNames :
          (fm_cache # 0 /\ fm_dicts[fm_cache][names] # 0) =>
              fm_lists[fm_dicts[fm_cache][names]] =
                  find_methods_alone(FindType, names, FindReverse(names))

\* two first calls for the reversed list raced, each built its own list,
\* and a later call has returned the cached one
C20_Witness ==
    /\ fm_ret["t1"].names = <<"_from_base_type">>
    /\ fm_ret["t2"].names = <<"_from_base_type">>
    /\ fm_call["t1"] = [NoFind EXCEPT !.names = <<"_from_base_type">>, !.reverse = TRUE,
                                      !.cache = fm_cache, !.n = 2]
    /\ fm_call["t2"].methods = fm_ret["t2"].list
    /\ fm_ret["t1"].list = fm_ret["t2"].list
    /\ \E i, j \in 1..Len(fm_lists) : i # j /\ fm_lists[i] = fm_lists[j]
    /\ fm_lists[fm_ret["t1"].list] # find_methods(FindType, <<"_from_base_type">>)

(***************************************************************************)
(* SpecSub: the classes are instantiated in any order, the structured      *)
(* fields of Person are asked for nested fields, and a Person is           *)
(* constructed, set, read and deleted from.                                *)
(***************************************************************************)
SubClasses == {"Person", "Leaf", "Address"}

NextSub ==
    \/ \E cls \in SubClasses : Instantiate(cls)
    \/ \E f \in Fields("Person") : \E a \in SubNames[f] : Sub("Person", f, a)
    \/ \E f \in Fields("Person") :
          \/ Construct("q", NoField, None)
          \/ \E v \in GetInputs[f] : SetValue("q", f, v)
          \/ GetValue("q", f)
          \/ DeleteValue("q", f)

SpecSub == Init /\ [][NextSub]_vars

\* the nested field Leaf.street is declared under the attribute "street"
\* with the storage name "st"
Registered(cls) == properties[cls] # NoMap

\* C21: with Person and Leaf registered, a request for the nested field of
\* Person.home by its storage name "st" and a request by its attribute
\* "street" both succeed, and each gives the name "home.st".
C21_SubByEitherName ==
    [][\A a \in {"st", "street"} :
          (Registered("Person") /\ Registered("Leaf")
             /\ last' = Call("sub", "home", Atom(Str(a)))) =>
              ret' = Ok(Atom(Str("home.st")))]_vars

(***************************************************************************)
(* SpecSet: one text field, declared with any of a few combinations of     *)
(* options, is set, read and deleted on one entity.                        *)
(***************************************************************************)
\* the field's _name after fix-up
SetName == "f"

\* the _name of another field of the entity
OtherName == "g"

\* list objects made in one behaviour
MaxObjects == 3

\* validators: "lower" returns its argument in lower case, "check" returns
\* None, "refuse" raises
SetValidators == {"none", "lower", "check", "refuse"}

SetChoices == {NoChoices, Choices({Str("a")}), Choices({Str("A")})}

SetArgs ==
    {[Args("String") EXCEPT !.repeated = rep, !.default = def,
                            !.validator = val, !.choices = cho] :
        rep \in BOOLEAN, def \in {None, Atom(Str("s"))},
        val \in SetValidators, cho \in SetChoices}

\* the descriptors the constructor builds
SetProps == {Property_init(args).prop : args \in {a \in SetArgs : Property_init(a).err = "none"}}

SetValues ==
    {None, Atom(Str("a")), Atom(Str("A")), Atom(Str("s")), Atom(IntAtom("7")),
     List(<<>>), List(<<Str("a")>>), List(<<Str("a"), IntAtom("7")>>),
     List(<<Str("A"), Str("a")>>), List(<<Str("a"), Str("A")>>)}

InitField ==
    /\ IdleCodec
    /\ InitClasses
    /\ InitEntities
    /\ InitFilter
    /\ now = 0
    /\ ctor = NoCtor
    /\ InitDb
    /\ InitConv
    /\ InitRace
    /\ InitFm
    /\ set_prop \in SetProps
    /\ set_values \in {EmptyDict, Put(EmptyDict, OtherName, Atom(Str("cheese")))}
    /\ set_ids = NoIds

\* line 93: the list comprehension makes the list that is stored
set_identity(prop, err, ids) ==
    IF err # "none" THEN ids
    ELSE IF prop.repeated
    THEN [ids EXCEPT !.stored = ids.next + 1, !.next = ids.next + 1]
    ELSE [ids EXCEPT !.stored = 0]

\* a read that gives a copy of the list it finds
get_identity_copy(prop, absent, ids) ==
    IF ~prop.repeated THEN [ids EXCEPT !.returned = 0]
    ELSE IF absent
    THEN [stored |-> ids.next + 1, returned |-> ids.next + 1, next |-> ids.next + 1]
    ELSE [ids EXCEPT !.returned = ids.next + 1, !.next = ids.next + 1]

\* lines 206-218: a repeated field's read returns the new list it stores
\* (lines 209-210), or the list it finds, changed in place (line 212)
get_identity(prop, absent, ids) ==
    IF ~prop.repeated THEN [ids EXCEPT !.returned = 0]
    ELSE IF absent
    THEN [stored |-> ids.next + 1, returned |-> ids.next + 1, next |-> ids.next + 1]
    ELSE [ids EXCEPT !.returned = ids.stored]

setFrame == <<codecVars, classVars, entityVars, now, ctor, filterVars, restButSet>>

\* prop._set_value(entity, value)
FieldSet(value) ==
    /\ \E r \in {set_value(set_prop, SetName, set_values, value)} :
           /\ ret' = [err |-> r.err, v |-> r.v]
           /\ set_values' = r.values
           /\ set_ids' = set_identity(set_prop, r.err, set_ids)
    /\ set_ids'.next <= MaxObjects
    /\ last' = Call("set", SetName, value)
    /\ UNCHANGED <<set_prop, setFrame>>

\* prop._get_value(entity)
FieldGet ==
    /\ \E r \in {get_value(set_prop, SetName, set_values)} :
           /\ ret' = [err |-> r.err, v |-> r.v]
           /\ set_values' = r.values
    /\ set_ids' = get_identity(set_prop, SetName \notin DOMAIN set_values, set_ids)
    /\ set_ids'.next <= MaxObjects
    /\ last' = Call("get", SetName, None)
    /\ UNCHANGED <<set_prop, setFrame>>

\* prop._delete_value(entity)
FieldDelete ==
    /\ set_values' = delete_value(SetName, set_values)
    /\ set_ids' = [set_ids EXCEPT !.stored = 0]
    /\ ret' = Ok(None)
    /\ last' = Call("delete", SetName, None)
    /\ UNCHANGED <<set_prop, setFrame>>

NextField ==
    \/ \E value \in SetValues : FieldSet(value)
    \/ FieldGet
    \/ FieldDelete

SpecField == InitField /\ [][NextField]_vars

\* what the validator makes of a text: its lower case, or the text itself
\* when it returns None or there is no validator
AfterValidator(validator, value) ==
    IF validator = "lower" THEN Atom(Str(Lower(value.s[1].txt))) ELSE value

\* C22: a single-valued field is set to a value that is not None.  Shallow
\* validation comes first (what is not a text is refused before the
\* validator is called), the validator second (it raises before the choices
\* are looked at; a result that is not None replaces the value, None keeps
\* it), the choices last, applied to the value after the validator; what is
\* stored is the value after the validator.
C22_ValidationOrder ==
    [][\A value \in SetValues \ {None} :
          (~set_prop.repeated /\ last' = Call("set", SetName, value)) =>
              IF ~IsAtomOf(value, {"str"})
              THEN ret' = Raise("BadValueError")
              ELSE IF set_prop.validator = "refuse"
              THEN ret' = Raise("ValueError")
              ELSE IF set_prop.choices.k # "none"
                      /\ AfterValidator(set_prop.validator, value).s[1]
                            \notin set_prop.choices.s
              THEN ret' = Raise("BadValueError")
              ELSE /\ ret' = Ok(None)
                   /\ set_values' =
                         Put(set_values, SetName,
                             AfterValidator(set_prop.validator, value))]_vars

\* "A" is outside the choices, the validator maps it to "a", which is
\* inside: accepted, and "a" is stored
C22_Witness ==
    /\ ~set_prop.repeated
    /\ set_prop.validator = "lower"
    /\ set_prop.choices = Choices({Str("a")})
    /\ last = Call("set", SetName, Atom(Str("A")))
    /\ ret = Ok(None)
    /\ SetName \in DOMAIN set_values
    /\ set_values[SetName] = Atom(Str("a"))

\* C23: the storage name of a field is the name given to its constructor,
\* or else, from the first fix-up of its class on, the attribute it is
\* declared under; once bound it is the same after every step, be it a
\* construction (which fixes the class up again), a set, a read, a delete
\* or a request for a nested field; and the map of a registered class
\* holds the same field under each storage name after every step.
C23_NameBoundOnce ==
    [][\A cls \in SubClasses :
          /\ \A f \in Fields(cls) :
                /\ prop_name[cls][f] # NoName => prop_name'[cls][f] = prop_name[cls][f]
                /\ prop_name'[cls][f] \in {prop_name[cls][f], f}
                /\ ClassFields[cls][f].name # NoName =>
                      prop_name'[cls][f] = ClassFields[cls][f].name
                /\ Registered(cls)' => prop_name'[cls][f] = DeclaredName(cls, f)
          /\ Registered(cls) => properties'[cls] = properties[cls]]_vars

\* Leaf is fixed up again after Person.home was asked for "street", a
\* Person exists and its field was read: "street" is still stored as "st"
C23_Witness ==
    /\ last = Call("new", "Leaf", None)
    /\ "street" \in DOMAIN subprops["Person"]["home"]
    /\ subprops["Person"]["home"]["street"].name = "home.st"
    /\ alive["q"]
    /\ "addresses" \in DOMAIN values["q"]
    /\ prop_name["Leaf"] = [city |-> "city", street |-> "st", tags |-> "tags"]
    /\ properties["Leaf"] = [city |-> "city", st |-> "street", tags |-> "tags"]
    /\ prop_name["Person"] = [home |-> "home", addresses |-> "addresses", hidden |-> "hidden"]

\* the sets of SpecField the code refuses
SetRaises(prop, value) ==
    IF prop.repeated
    THEN \/ value.k # "list"
         \/ \E i \in 1..Len(value.s) : do_validate(prop, Atom(value.s[i])).err # "none"
    ELSE value # None /\ do_validate(prop, value).err # "none"

\* C24: a set that raises stores nothing.  A repeated field given a value
\* that is no sequence, a sequence one element of which fails validation
\* (the last one too), a validator that raises and a value outside the
\* choices all raise, the store is after the call what it was before, and
\* a read then gives the value stored before.
C24_FailedSetStoresNothing ==
    [][\A value \in SetValues :
          last' = Call("set", SetName, value) =>
              /\ (set_prop.repeated /\ value.k # "list") => ret' = Raise("BadValueError")
              /\ (set_prop.repeated /\ set_prop.validator # "refuse"
                    /\ value = List(<<Str("a"), IntAtom("7")>>)) =>
                    ret' = Raise("BadValueError")
              /\ (set_prop.validator = "refuse" /\ value = Atom(Str("a"))
                    /\ ~set_prop.repeated) => ret' = Raise("ValueError")
              /\ (set_prop.choices = Choices({Str("a")}) /\ set_prop.validator = "none"
                    /\ value \in {Atom(Str("s")), List(<<Str("a"), Str("A")>>)}) =>
                    ret' = Raise("BadValueError")
              /\ ret'.err # "none" <=> SetRaises(set_prop, value)
              /\ ret'.err # "none" =>
                    /\ set_values' = set_values
                    /\ SetName \in DOMAIN set_values =>
                          get_value(set_prop, SetName, set_values').v = set_values[SetName]]_vars

\* ["a"] is stored; a set to ["a", 7] fails at its last element, and ["a"]
\* is still stored
C24_Witness ==
    /\ set_prop.repeated
    /\ set_prop.choices = NoChoices
    /\ last = Call("set", SetName, List(<<Str("a"), IntAtom("7")>>))
    /\ ret = Raise("BadValueError")
    /\ SetName \in DOMAIN set_values
    /\ set_values[SetName] = List(<<Str("a")>>)

\* C25: a read of a single-valued field leaves the store as it is and
\* returns the stored value, a stored None as None, or the default when
\* the field is absent; a read of a repeated field that is stored leaves
\* the store as it is and returns the stored list itself; a read of a
\* repeated field that is absent puts a new empty list under the field's
\* name, changes no other entry, and returns that list.
C25_ReadFrame ==
    [][last' = Call("get", SetName, None) =>
          IF ~set_prop.repeated
          THEN /\ set_values' = set_values
               /\ ret' = Ok(IF SetName \in DOMAIN set_values
                            THEN set_values[SetName] ELSE set_prop.default)
          ELSE IF SetName \in DOMAIN set_values
          THEN /\ set_values' = set_values
               /\ ret' = Ok(set_values[SetName])
               /\ set_ids'.stored = set_ids.stored
               /\ set_ids'.returned = set_ids.stored
          ELSE /\ DOMAIN set_values' = DOMAIN set_values \cup {SetName}
               /\ set_values'[SetName] = List(<<>>)
               /\ \A n \in DOMAIN set_values : set_values'[n] = set_values[n]
               /\ ret' = Ok(List(<<>>))
               /\ set_ids'.stored > set_ids.next
               /\ set_ids'.returned = set_ids'.stored]_vars

\* a repeated field was set, deleted and read: the read has stored a new
\* empty list, the second list made, beside the other field's entry
C25_Witness ==
    /\ set_prop.repeated
    /\ last = Call("get", SetName, None)
    /\ ret = Ok(List(<<>>))
    /\ set_values = Put(Put(EmptyDict, OtherName, Atom(Str("cheese"))),
                        SetName, List(<<>>))
    /\ set_ids = [stored |-> 2, returned |-> 2, next |-> 2]

==========================================================================
